---- MODULE Spec2Model ----
(***************************************************************************)
(* A model of the rfgen waveform-synthesis engine: the AIS framing chain   *)
(* (CRC-16/X25, LSB-first bits, HDLC bit-stuffing, NRZI), the DSC ten-bit  *)
(* framing, the PSK-406 encoders, the generic pattern+modulation path, the *)
(* FSK encoders (DSC-VHF, DSC-HF, NAVTEX) with the build_iq dispatcher,    *)
(* the transformation stages (digital shift, resample, peak normalisation) *)
(* and the HackRF backend's run_loop.                                      *)
(*                                                                         *)
(* Conventions.  Byte strings, bit arrays and symbol lists are sequences   *)
(* of naturals.  Text (hex payloads, MMSI) is a sequence of one-character  *)
(* strings.  Sample magnitudes and the real-valued modulating signal are   *)
(* fixed-point numbers in thousandths (1000 is 1.0).  A raised ValueError  *)
(* is a result record with status "error", which lists the sample arrays   *)
(* created before it was raised.                                           *)
(***************************************************************************)
EXTENDS Integers, Sequences, FiniteSets, TLC

VARIABLES
    profile,        \* AIS: the profile handed to build_ais (hex payload, fs_tx)
    ais,            \* AIS: what build_ais computed for it
    bits,           \* bit level: the input bit array
    bits_stuffed,   \* bit level: result of _bit_stuff_ais(bits)
    nrzi_symbols,   \* bit level: result of _nrzi_encode_ais(bits)
    sym,            \* DSC: a symbol handed to the ten-bit encoder
    tenbit,         \* DSC: its ten-bit character
    dsc_cfg,        \* DSC: the call configuration (dsc_cfg and eos_symbol)
    primary_symbols,\* DSC: result of build_primary_symbols_from_cfg(dsc_cfg)
    dsc_bits,       \* DSC: result of build_dsc_bits(primary_symbols, eos_symbol)
    psk_profile,    \* PSK-406: the profile handed to either entry point
    psk_sig,        \* PSK-406: the buffer it returned, or the error
    gen_profile,    \* generic path: the profile and frame duration given to build_iq
    iq,             \* generic path: the buffer build_iq returned
    enc_profile,    \* encoders: the profile handed to an encoder or to build_iq
    enc_out,        \* encoders: which encoder ran, and what it returned or raised
    xf_heap,        \* stages: the sample buffers that exist, an object's id is its index
    xf_call,        \* stages: the stage called, its arguments and what it returned
    hackrf,         \* backend: the HackRFTx instance and its transfer process
    tx_call,        \* backend: the last run_loop call and what it handed to the transfer
    synth_calls,    \* noise: the synthesis calls made so far, each its configuration and buffer
    last_rng,       \* noise: the generator object the latest call created and drew from
    sc8_iq,         \* recording: the buffer handed to save_sc8
    sc8_file,       \* recording: the int8 values save_sc8 wrote, I and Q interleaved
    gauss_args,     \* Gaussian filter: samples per symbol and span handed to _gaussian_filter_ais
    gauss_taps,     \* Gaussian filter: the tap times of the kernel it returned, in samples
    vhf_primary_symbols,\* DSC: result of dsc_vhf.build_primary_symbols_from_cfg(dsc_cfg)
    vhf_dsc_bits,   \* DSC: result of dsc_vhf.build_dsc_bits on that list
    mmsi_text,      \* MMSI: the string handed to _mmsi_to_symbols
    mmsi_out,       \* MMSI: the symbols it returned, or the error it raised
    transfers,      \* backend: the transfer processes the operating system started for the instance
    p121_prof,      \* 121.5 page: the profile the page collected, handed to _start_hackrf
    p121_iq         \* 121.5 page: what build_iq returned for it

vars == <<profile, ais, bits, bits_stuffed, nrzi_symbols,
          sym, tenbit, dsc_cfg, primary_symbols, dsc_bits,
          psk_profile, psk_sig, gen_profile, iq,
          enc_profile, enc_out,
          xf_heap, xf_call, hackrf, tx_call,
          synth_calls, last_rng,
          sc8_iq, sc8_file,
          gauss_args, gauss_taps,
          vhf_primary_symbols, vhf_dsc_bits,
          mmsi_text, mmsi_out,
          transfers,
          p121_prof, p121_iq>>

(***************************************************************************)
(* Bounds of the model.                                                    *)
(***************************************************************************)
MaxBits == 11
MaxHexLen == 4
MaxPrimary == 3
MaxSamples == 9

(***************************************************************************)
(* Integer helpers.                                                        *)
(***************************************************************************)
RECURSIVE Xor(_, _)
Xor(a, b) ==
    IF a = 0 THEN b
    ELSE IF b = 0 THEN a
    ELSE (((a % 2) + (b % 2)) % 2) + (2 * Xor(a \div 2, b \div 2))

RECURSIVE Pow2(_)
Pow2(k) == IF k = 0 THEN 1 ELSE 2 * Pow2(k - 1)

Repeat(x, n) == [i \in 1..n |-> x]

\* "for x in seq[lo..hi]: st = Step(st, x)", in order.  The range is halved
\* and the state after the first half is computed before the second half is
\* entered (a bound variable holds a value), so that the evaluation depth
\* stays logarithmic in the length of the range.
RECURSIVE Loop(_, _, _, _, _)
Loop(Step(_, _), seq, lo, hi, st) ==
    IF lo > hi THEN st
    ELSE IF lo = hi THEN Step(st, seq[lo])
    ELSE CHOOSE last \in {Loop(Step, seq, ((lo + hi) \div 2) + 1, hi, half) :
                             half \in {Loop(Step, seq, lo, (lo + hi) \div 2, st)}} : TRUE

\* "for x in seq: st = Step(st, x)"
ForEach(Step(_, _), seq, st) == Loop(Step, seq, 1, Len(seq), st)

NoResult == [status |-> "none"]
\* an exception, with the sample buffers the call had created when it was
\* raised: each a section name and its length in samples
RaisedAfter(msg, allocated) ==
    [status |-> "error", error |-> msg, allocated |-> allocated]

\* an exception raised before any sample buffer was created
Raised(msg) == RaisedAfter(msg, <<>>)

Buffer(name, n) == [name |-> name, n |-> n]

(***************************************************************************)
(* wave_engine.py: AIS helpers.                                            *)
(***************************************************************************)
CrcInit == 65535
CrcPoly == 33800
CrcXorOut == 65535

\* the inner loop, k passes to go: shift right, XOR the polynomial on a 1 bit
RECURSIVE CrcShiftTimes(_, _)
CrcShiftTimes(crc, k) ==
    CASE k = 0       -> crc
      [] crc % 2 = 1 -> CrcShiftTimes(Xor(crc \div 2, CrcPoly), k - 1)
      [] OTHER       -> CrcShiftTimes(crc \div 2, k - 1)

\* one pass of the outer loop: crc ^= byte, then eight shifts
CrcByte(crc, byte) == CrcShiftTimes(Xor(crc, byte), 8)

\* the register after the loop over data, before the final XOR
CrcRegister(crc, data) == ForEach(CrcByte, data, crc)

_crc16_x25_ais(data) == Xor(CrcRegister(CrcInit, data), CrcXorOut) % 65536

\* fcs.to_bytes(2, 'big'): the high byte first
FcsBytesBigEndian(fcs) == <<fcs \div 256, fcs % 256>>

\* fcs.to_bytes(2, 'little')
fcs_to_bytes(fcs) == <<fcs % 256, fcs \div 256>>

_bytes_to_bits_lsb_first_ais(data) ==
    [j \in 1..(8 * Len(data)) |->
        (data[((j - 1) \div 8) + 1] \div Pow2((j - 1) % 8)) % 2]

\* the body of the loop of _bit_stuff_ais
StuffStep(st, bit) ==
    IF bit = 1
    THEN IF st.ones_count + 1 = 5
         THEN [ones_count |-> 0, stuffed |-> st.stuffed \o <<bit, 0>>]
         ELSE [ones_count |-> st.ones_count + 1, stuffed |-> Append(st.stuffed, bit)]
    ELSE [ones_count |-> 0, stuffed |-> Append(st.stuffed, bit)]

\* a loop body that stuffs after six 1s instead of five
StuffStepAfterSix(st, bit) ==
    IF bit = 1
    THEN IF st.ones_count + 1 = 6
         THEN [ones_count |-> 0, stuffed |-> st.stuffed \o <<bit, 0>>]
         ELSE [ones_count |-> st.ones_count + 1, stuffed |-> Append(st.stuffed, bit)]
    ELSE [ones_count |-> 0, stuffed |-> Append(st.stuffed, bit)]

BitStuffAfterSix(bs) ==
    ForEach(StuffStepAfterSix, bs, [ones_count |-> 0, stuffed |-> <<>>]).stuffed

\* a loop body that does not reset the count on a 0 bit
StuffStepNoReset(st, bit) ==
    IF bit = 1
    THEN IF st.ones_count + 1 = 5
         THEN [ones_count |-> 0, stuffed |-> st.stuffed \o <<bit, 0>>]
         ELSE [ones_count |-> st.ones_count + 1, stuffed |-> Append(st.stuffed, bit)]
    ELSE [ones_count |-> st.ones_count, stuffed |-> Append(st.stuffed, bit)]

BitStuffNoReset(bs) ==
    ForEach(StuffStepNoReset, bs, [ones_count |-> 0, stuffed |-> <<>>]).stuffed

_bit_stuff_ais(bs) ==
    ForEach(StuffStep, bs, [ones_count |-> 0, stuffed |-> <<>>]).stuffed

NrziInitLevel == 1

\* the body of the loop of _nrzi_encode_ais
NrziStep(st, bit) ==
    LET level == IF bit = 0 THEN -st.level ELSE st.level
    IN  [level |-> level, nrzi |-> Append(st.nrzi, level)]

\* a loop body that toggles on 1 and holds on 0
NrziStepToggleOnOne(st, bit) ==
    LET level == IF bit = 1 THEN -st.level ELSE st.level
    IN  [level |-> level, nrzi |-> Append(st.nrzi, level)]

NrziToggleOnOne(bs) ==
    ForEach(NrziStepToggleOnOne, bs, [level |-> NrziInitLevel, nrzi |-> <<>>]).nrzi

_nrzi_encode_ais(bs) ==
    ForEach(NrziStep, bs, [level |-> NrziInitLevel, nrzi |-> <<>>]).nrzi

(***************************************************************************)
(* Text helpers: hex strings as sequences of one-character strings.        *)
(***************************************************************************)
HexChars == <<"0", "1", "2", "3", "4", "5", "6", "7",
              "8", "9", "a", "b", "c", "d", "e", "f">>

IsHex(c) == \E i \in 1..16 : HexChars[i] = c

HexVal(c) == (CHOOSE i \in 1..16 : HexChars[i] = c) - 1

\* str.replace(" ", ""), which here also does the work of strip()
RemoveSpaces(s) == SelectSeq(s, LAMBDA c : c # " ")

\* what bytes.fromhex accepts once the spaces are gone
ValidHex(s) == (Len(s) % 2 = 0) /\ (\A i \in 1..Len(s) : IsHex(s[i]))

\* bytes.fromhex on a valid string: two digits per byte, high nibble first
fromhex(s) ==
    [i \in 1..(Len(s) \div 2) |-> (16 * HexVal(s[(2 * i) - 1])) + HexVal(s[2 * i])]

(***************************************************************************)
(* wave_engine.py: build_ais.                                              *)
(***************************************************************************)
AisSymbolRate == 9600
AisMinSps == 2
AisPreMs == 20
AisPostMs == 20
AisPeak == 800

Preamble == [i \in 1..24 |-> (i + 1) % 2]
Flag == <<0, 1, 1, 1, 1, 1, 1, 0>>
Guard == Repeat(0, 24)

\* a frame assembled by stuffing everything between preamble and guard
FrameStuffFlags(stuffed) ==
    Preamble \o _bit_stuff_ais(Flag \o stuffed \o Flag) \o Guard

\* step 4 of build_ais: the frame around the stuffed payload+FCS bits
frame_bits(stuffed) == Preamble \o Flag \o stuffed \o Flag \o Guard

\* profile.standard_params.hex_message or profile.pattern.hex, spaces removed
hex_payload(prof) ==
    RemoveSpaces(IF prof.hex_message # <<>> THEN prof.hex_message
                 ELSE prof.pattern_hex)

\* steps 1..8 on parsed payload bytes
AisEncode(payload_bytes, fs) ==
    LET fcs      == _crc16_x25_ais(payload_bytes)
        plain    == _bytes_to_bits_lsb_first_ais(payload_bytes \o fcs_to_bytes(fcs))
        stuffed  == _bit_stuff_ais(plain)
        frame    == frame_bits(stuffed)
        nrzi     == _nrzi_encode_ais(frame)
        sps      == fs \div AisSymbolRate
        pre      == (fs * AisPreMs) \div 1000
        post     == (fs * AisPostMs) \div 1000
    IN  IF sps < AisMinSps
        THEN Raised("Fs too small for Rs")
        ELSE [status           |-> "ok",
              payload_bytes    |-> payload_bytes,
              fcs              |-> fcs,
              bits_payload_fcs |-> plain,
              bits_stuffed     |-> stuffed,
              frame_bits       |-> frame,
              nrzi_symbols     |-> nrzi,
              n_samples        |-> pre + (Len(nrzi) * sps) + post,
              peak             |-> AisPeak]

build_ais(prof) ==
    LET hex == hex_payload(prof)
    IN  IF hex = <<>> THEN Raised("AIS: empty HEX payload")
        ELSE IF ~ValidHex(hex) THEN Raised("AIS: bad HEX payload")
        ELSE AisEncode(fromhex(hex), prof.fs_tx)

(***************************************************************************)
(* dsc_common.py: ten-bit characters and the DSC frame.                    *)
(***************************************************************************)
Plus(a, b) == a + b

\* int(info7.sum())
SeqSum(s) == ForEach(Plus, s, 0)

ValidSymbol(s) == (0 <= s) /\ (s <= 127)

\* 7 info bits MSB-first: b6, b5, ..., b0 (the range check is ValidSymbol)
_symbol_to_primary7(s) == [k \in 1..7 |-> (s \div Pow2(7 - k)) % 2]

\* a check field that counts the 1 bits instead of the 0 bits
TenbitOnesCount(info7) ==
    LET ones == SeqSum(info7)
    IN  info7 \o <<(ones \div 4) % 2, (ones \div 2) % 2, ones % 2>>

_primary7_to_tenbit(info7) ==
    LET zeros == 7 - SeqSum(info7)
    IN  info7 \o <<(zeros \div 4) % 2, (zeros \div 2) % 2, zeros % 2>>

_symbols_to_tenbits(symbols) ==
    [i \in 1..Len(symbols) |-> _primary7_to_tenbit(_symbol_to_primary7(symbols[i]))]

\* np.concatenate over ten-bit arrays
_tenbits_to_bitstream(chars10) ==
    IF chars10 = <<>> THEN <<>>
    ELSE [j \in 1..(10 * Len(chars10)) |->
             chars10[((j - 1) \div 10) + 1][((j - 1) % 10) + 1]]

_build_dotting(n) == Repeat(126, n)

PhasingBase == <<111, 110, 109, 108, 107, 106, 105, 104>>

_build_phasing_rx(repeats) ==
    [i \in 1..(8 * repeats) |-> PhasingBase[((i - 1) % 8) + 1]]

\* a frame builder that sends the format specifier once
DscFrameSingleFs(primary, fs_symbol, eos_symbol, include_eos) ==
    _build_dotting(120) \o _build_phasing_rx(2) \o <<fs_symbol>>
    \o (IF include_eos THEN Append(primary, eos_symbol) ELSE primary)

_build_dsc_frame(primary, fs_symbol, eos_symbol, include_eos) ==
    LET prefix  == _build_dotting(120) \o _build_phasing_rx(2)
        header  == <<fs_symbol, fs_symbol>>
        payload == IF include_eos THEN Append(primary, eos_symbol) ELSE primary
    IN  prefix \o header \o payload

\* the decimal digits 0..9, which int() converts
IsDecimal(c) == \E i \in 1..10 : HexChars[i] = c

\* str.isdigit(): true of the decimal digits and of digit characters that
\* are not decimal, such as the superscript two U+00B2, written "sup2"
IsDigit(c) == IsDecimal(c) \/ c = "sup2"

\* int() of one decimal digit
DigitVal(c) == HexVal(c)

\* str.zfill(width) on a string of digits
zfill(s, width) == IF Len(s) >= width THEN s ELSE Repeat("0", width - Len(s)) \o s

\* [int(s[i:i+2]) for i in range(0, len(s), 2)] on an even-length digit string
Pairs(s) ==
    [i \in 1..(Len(s) \div 2) |->
        (10 * DigitVal(s[(2 * i) - 1])) + DigitVal(s[2 * i])]

_digits_to_symbols(digits) ==
    LET s == SelectSeq(digits, IsDigit)
    IN  Pairs(IF Len(s) % 2 = 1 THEN Append(s, "0") ELSE s)

\* an MMSI split like a plain digit string: padded on the right
MmsiPaddedRight(mmsi) == _digits_to_symbols(mmsi)

_mmsi_to_symbols(mmsi) ==
    LET s     == zfill(SelectSeq(mmsi, IsDigit), 9)
        pairs == Pairs(IF Len(s) % 2 = 1 THEN <<"0">> \o s ELSE s)
    IN  IF Len(pairs) < 5 THEN Repeat(0, 5 - Len(pairs)) \o pairs
        ELSE IF Len(pairs) > 5 THEN SubSeq(pairs, Len(pairs) - 4, Len(pairs))
        ELSE pairs

\* a call of _mmsi_to_symbols: int(s[i:i+2]) raises ValueError on a pair
\* that holds a character isdigit() let through and int() does not convert
MmsiToSymbols(mmsi) ==
    IF \E i \in 1..Len(mmsi) : IsDigit(mmsi[i]) /\ ~IsDecimal(mmsi[i])
    THEN Raised("invalid literal for int() with base 10")
    ELSE [status |-> "ok", value |-> _mmsi_to_symbols(mmsi)]

build_dsc_bits(primary, eos_symbol) ==
    IF primary = <<>> THEN Raised("IndexError: primary_symbols[0]")
    ELSE LET seq_syms == _build_dsc_frame(Tail(primary), Head(primary),
                                          eos_symbol, TRUE)
         IN  IF \E i \in 1..Len(seq_syms) : ~ValidSymbol(seq_syms[i])
             THEN Raised("Symbol out of range 0..127")
             ELSE [status |-> "ok",
                   value  |-> _tenbits_to_bitstream(_symbols_to_tenbits(seq_syms))]

\* dict.get(key, default) on an optional field: <<>> is a missing key
Get(opt, default) == IF opt = <<>> THEN default ELSE opt[1]

\* str.lower() on the names the model uses
Lower(str) ==
    CASE str = "ALL_SHIPS"  -> "all_ships"
      [] str = "Individual" -> "individual"
      [] str = "Tone"       -> "tone"
      [] str = "Sweep"      -> "sweep"
      [] str = "Noise"      -> "noise"
      [] str = "None"       -> "none"
      [] str = "AM"         -> "am"
      [] str = "FM"         -> "fm"
      [] str = "PM"         -> "pm"
      [] OTHER              -> str

Text(digits) == [i \in 1..Len(digits) |-> HexChars[digits[i] + 1]]

DefaultMmsi == Text(<<1, 1, 1, 2, 2, 2, 3, 3, 3>>)
DefaultMmsiFrom == Text(<<9, 9, 9, 8, 8, 8, 7, 7, 7>>)

build_primary_symbols_from_cfg(cfg) ==
    IF cfg.primary_symbols # <<>> THEN cfg.primary_symbols
    ELSE LET scenario == Lower(cfg.scenario)
             fmt      == IF cfg.format_symbol # <<>> THEN cfg.format_symbol[1]
                         ELSE IF scenario = "individual" THEN 115
                         ELSE IF scenario = "distress" THEN 112
                         ELSE 116
             addr     == _mmsi_to_symbols(Get(cfg.mmsi, DefaultMmsi))
             self_id  == _mmsi_to_symbols(Get(cfg.mmsi_from, DefaultMmsiFrom))
             category == Get(cfg.category_symbol, 100)
             tele     == Get(cfg.telecommand_symbols, <<126, 126>>)
         IN  <<fmt>> \o addr \o <<category>> \o self_id \o tele

(***************************************************************************)
(* dsc_vhf.py: the module's own framing functions, which build_dsc_vhf and *)
(* generate_dsc_vhf's callers use; dsc_hf.py imports dsc_common's.         *)
(***************************************************************************)
vhf_symbol_to_primary7(s) == [k \in 1..7 |-> (s \div Pow2(7 - k)) % 2]

vhf_primary7_to_tenbit(info7) ==
    LET zeros == 7 - SeqSum(info7)
    IN  info7 \o <<(zeros \div 4) % 2, (zeros \div 2) % 2, zeros % 2>>

vhf_symbols_to_tenbits(symbols) ==
    [i \in 1..Len(symbols) |->
        vhf_primary7_to_tenbit(vhf_symbol_to_primary7(symbols[i]))]

vhf_tenbits_to_bitstream(chars10) ==
    IF chars10 = <<>> THEN <<>>
    ELSE [j \in 1..(10 * Len(chars10)) |->
             chars10[((j - 1) \div 10) + 1][((j - 1) % 10) + 1]]

\* _build_dotting(120) + _build_phasing_rx(2), then FS twice, then the payload
vhf_build_dsc_frame(primary, fs_symbol, eos_symbol, include_eos) ==
    LET base    == <<111, 110, 109, 108, 107, 106, 105, 104>>
        prefix  == Repeat(126, 120) \o base \o base
        header  == <<fs_symbol, fs_symbol>>
        payload == IF include_eos THEN Append(primary, eos_symbol) ELSE primary
    IN  prefix \o header \o payload

vhf_mmsi_to_symbols(mmsi) ==
    LET s     == zfill(SelectSeq(mmsi, IsDigit), 9)
        pairs == Pairs(IF Len(s) % 2 = 1 THEN <<"0">> \o s ELSE s)
    IN  IF Len(pairs) < 5 THEN Repeat(0, 5 - Len(pairs)) \o pairs
        ELSE IF Len(pairs) > 5 THEN SubSeq(pairs, Len(pairs) - 4, Len(pairs))
        ELSE pairs

vhf_build_dsc_bits(primary, eos_symbol) ==
    IF primary = <<>> THEN Raised("IndexError: primary_symbols[0]")
    ELSE LET seq_syms == vhf_build_dsc_frame(Tail(primary), Head(primary),
                                             eos_symbol, TRUE)
         IN  IF \E i \in 1..Len(seq_syms) : ~ValidSymbol(seq_syms[i])
             THEN Raised("Symbol out of range 0..127")
             ELSE [status |-> "ok",
                   value  |-> vhf_tenbits_to_bitstream(
                                  vhf_symbols_to_tenbits(seq_syms))]

vhf_build_primary_symbols_from_cfg(cfg) ==
    IF cfg.primary_symbols # <<>> THEN cfg.primary_symbols
    ELSE LET scenario == Lower(cfg.scenario)
             fmt      == IF cfg.format_symbol # <<>> THEN cfg.format_symbol[1]
                         ELSE IF scenario = "individual" THEN 115
                         ELSE IF scenario = "distress" THEN 112
                         ELSE 116
             addr     == vhf_mmsi_to_symbols(Get(cfg.mmsi, DefaultMmsi))
             self_id  == vhf_mmsi_to_symbols(Get(cfg.mmsi_from, DefaultMmsiFrom))
             category == Get(cfg.category_symbol, 100)
             tele     == Get(cfg.telecommand_symbols, <<126, 126>>)
         IN  <<fmt>> \o addr \o <<category>> \o self_id \o tele

(***************************************************************************)
(* PSK-406: wave_engine.build_psk406 and psk406.generate_psk406.           *)
(* Durations are whole milliseconds (carrier_sec included, as carrier_ms), *)
(* phases milliradians, magnitudes thousandths.  A buffer is its list of   *)
(* sections, each a sample count and the largest magnitude of its samples. *)
(***************************************************************************)
Abs(x) == IF x < 0 THEN -x ELSE x
Max(a, b) == IF a >= b THEN a ELSE b
Min(a, b) == IF a <= b THEN a ELSE b

\* int(round(num / den)) for num >= 0, den > 0: Python rounds halves to even
Round(num, den) ==
    LET q == num \div den
        r == num % den
    IN  IF 2 * r < den THEN q
        ELSE IF 2 * r > den THEN q + 1
        ELSE IF q % 2 = 0 THEN q ELSE q + 1

\* int(round(ms * 1e-3 * fs)): the whole thousands of fs are multiplied apart
\* so that no intermediate product outgrows a machine integer
SamplesOf(ms, fs) ==
    LET whole == ms * (fs \div 1000)
        num   == ms * (fs % 1000)
        q     == whole + (num \div 1000)
        r     == num % 1000
    IN  IF r < 500 THEN q
        ELSE IF r > 500 THEN q + 1
        ELSE IF q % 2 = 0 THEN q ELSE q + 1

UpperHex == <<"A", "B", "C", "D", "E", "F">>

\* str.lower() on one character of a hex string
LowerChar(c) ==
    IF \E i \in 1..6 : UpperHex[i] = c
    THEN HexChars[10 + (CHOOSE i \in 1..6 : UpperHex[i] = c)]
    ELSE c

\* "".join(hex_message.split()).lower()
HexClean(hex_message) ==
    LET t == RemoveSpaces(hex_message)
    IN  [i \in 1..Len(t) |-> LowerChar(t[i])]

\* np.unpackbits: 8 bits per byte, most significant first
unpackbits(data) ==
    [j \in 1..(8 * Len(data)) |->
        (data[((j - 1) \div 8) + 1] \div Pow2(7 - ((j - 1) % 8))) % 2]

\* _hex_to_bits on a string it accepts
_hex_to_bits(hex_message) == unpackbits(fromhex(HexClean(hex_message)))

PskBitRate == 400
PskMinBitSamples == 10
PeakCore == 950
PeakStandards == 999
DefaultCarrierMs == 160
DefaultSilenceMs == 25

\* _seg(prev_phase, target_phase, segN, frontN): the ramp and steady parts
_seg(prev_phase, target_phase, segN, frontN) ==
    LET rampN == Min(frontN, segN)
    IN  IF segN <= 0 THEN [n |-> 0, rampN |-> 0, steadyN |-> 0,
                           from |-> prev_phase, to |-> target_phase]
        ELSE IF rampN > 0
             THEN [n |-> segN, rampN |-> rampN, steadyN |-> segN - rampN,
                   from |-> prev_phase, to |-> target_phase]
             ELSE [n |-> segN, rampN |-> 0, steadyN |-> segN,
                   from |-> prev_phase, to |-> target_phase]

\* half-bit segments whose targets do not depend on the bit value
SegmentsLowHigh(bs, bit_samples, front_samples, phase_low, phase_high) ==
    LET half == bit_samples \div 2
    IN  [k \in 1..(2 * Len(bs)) |->
            IF k % 2 = 1
            THEN _seg(IF k = 1 THEN 0 ELSE phase_high, phase_low, half,
                      front_samples)
            ELSE _seg(phase_low, phase_high, bit_samples - half, front_samples)]

\* the two half-bit segments of every bit, in order
Segments(bs, bit_samples, front_samples, phase_low, phase_high) ==
    LET half      == bit_samples \div 2
        first(b)  == IF b = 0 THEN phase_low ELSE phase_high
        second(b) == IF b = 0 THEN phase_high ELSE phase_low
        prev(i)   == IF i = 1 THEN 0 ELSE second(bs[i - 1])
    IN  [k \in 1..(2 * Len(bs)) |->
            LET i == (k + 1) \div 2
            IN  IF k % 2 = 1
                THEN _seg(prev(i), first(bs[i]), half, front_samples)
                ELSE _seg(first(bs[i]), second(bs[i]), bit_samples - half,
                          front_samples)]

\* np.concatenate([pre, carrier, msg]) where the carrier is left out
SectionsNoCarrier(pre, carrier, msg, post) == <<pre, msg, post>>

\* np.concatenate([pre, carrier, msg, post])
Sections(pre, carrier, msg, post) == <<pre, carrier, msg, post>>

TotalLen(sections) ==
    ForEach(LAMBDA acc, sec : acc + sec.n, sections, 0)

\* np.max(np.abs(x)) if x.size else 1.0
PeakOf(sections) ==
    IF TotalLen(sections) = 0 THEN 1000
    ELSE ForEach(LAMBDA acc, sec : IF sec.n > 0 THEN Max(acc, sec.mag) ELSE acc,
                 sections, 0)

\* _clip_norm(x, peak)
_clip_norm(sections, peak) ==
    LET mx == PeakOf(sections)
    IN  IF mx = 0 THEN sections
        ELSE IF mx > peak
             THEN [i \in 1..Len(sections) |->
                      [sections[i] EXCEPT !.mag = (sections[i].mag * peak) \div mx]]
             ELSE sections

\* the largest magnitude in a returned buffer (0 for an empty one)
BufferPeak(sections) ==
    ForEach(LAMBDA acc, sec : IF sec.n > 0 THEN Max(acc, sec.mag) ELSE acc,
            sections, 0)

\* a ramp check against the whole half-bit
FrontOverHalfBit(front_samples, half) == front_samples >= half

\* "if front_samples >= half // 2: raise"
FrontTooLong(front_samples, half) == front_samples >= half \div 2

PskResult(entry, pre_N, carr_N, post_N, bit_samples, msg_bits, segs, sig) ==
    [status      |-> "ok",
     entry       |-> entry,
     pre_N       |-> pre_N,
     carr_N      |-> carr_N,
     post_N      |-> post_N,
     bit_samples |-> bit_samples,
     bits        |-> msg_bits,
     segments    |-> segs,
     sections    |-> sig,
     n           |-> TotalLen(sig),
     peak        |-> BufferPeak(sig)]

\* a trailing silence that leaves the gap to the backend in every mode
PostSilenceNoGap(mode, gap_s, post_silence_ms) == post_silence_ms

\* "if mode == 'loop': post_silence_ms = gap_s * 1000.0"
PostSilenceMs(mode, gap_s, post_silence_ms) ==
    IF mode = "loop" THEN gap_s * 1000 ELSE post_silence_ms

build_psk406(prof) ==
    LET fs              == prof.fs_tx
        post_silence_ms == PostSilenceMs(prof.mode, prof.gap_s, prof.post_silence_ms)
        bit_samples     == Round(fs, PskBitRate)
        half            == bit_samples \div 2
        clean           == HexClean(prof.hex_message)
        msg_bits        == _hex_to_bits(prof.hex_message)
        pre_N           == SamplesOf(prof.pre_silence_ms, fs)
        post_N          == SamplesOf(post_silence_ms, fs)
        carr_N          == SamplesOf(prof.carrier_ms, fs)
        segs            == Segments(msg_bits, bit_samples, prof.front_samples,
                                    prof.phase_low, prof.phase_high)
        sig             == Sections([n |-> pre_N, mag |-> 0],
                                    [n |-> carr_N, mag |-> 1000],
                                    [n |-> Len(msg_bits) * bit_samples, mag |-> 1000],
                                    [n |-> post_N, mag |-> 0])
    IN  IF bit_samples < PskMinBitSamples
        THEN Raised("bit_samples too small; increase fs_tx")
        ELSE IF FrontTooLong(prof.front_samples, half)
        THEN Raised("front_samples must be < bit_samples/4")
        ELSE IF Len(clean) % 2 # 0
        THEN Raised("HEX length must be even")
        ELSE IF ~ValidHex(clean)
        THEN Raised("Invalid HEX")
        ELSE PskResult("build_psk406", pre_N, carr_N, post_N, bit_samples,
                       msg_bits, segs, _clip_norm(sig, PeakCore))

\* generate_psk406_cf32 with the arguments generate_psk406 passes; noise_peak
\* is the largest magnitude among the seeded noise samples of the silences
generate_psk406_cf32(fs, hex_message, phase_low, phase_high, front_samples, pre_silence_ms, post_silence_ms, carrier_ms, noise_peak) ==
    LET bit_samples == Round(fs, PskBitRate)
        half        == bit_samples \div 2
        clean       == HexClean(hex_message)
        msg_bits    == _hex_to_bits(hex_message)
        pre_N       == SamplesOf(pre_silence_ms, fs)
        post_N      == SamplesOf(post_silence_ms, fs)
        carr_N      == SamplesOf(carrier_ms, fs)
        segs        == Segments(msg_bits, bit_samples, front_samples,
                                phase_low, phase_high)
        made        == <<Buffer("pre", pre_N), Buffer("carrier", carr_N)>>
        sig         == Sections([n |-> pre_N, mag |-> noise_peak],
                                [n |-> carr_N, mag |-> 1000],
                                [n |-> Len(msg_bits) * bit_samples, mag |-> 1000],
                                [n |-> post_N, mag |-> noise_peak])
    IN  IF bit_samples < PskMinBitSamples
        THEN Raised("bit_samples too small; increase sample_rate_sps")
        ELSE IF front_samples >= bit_samples \div 2
        THEN Raised("front_samples must be < bit_samples/2")
        ELSE IF Len(clean) % 2 # 0
        THEN RaisedAfter("HEX length must be even", made)
        ELSE IF ~ValidHex(clean)
        THEN RaisedAfter("Invalid HEX", made)
        ELSE IF FrontTooLong(front_samples, half)
        THEN RaisedAfter("front_samples must be < half_bit_samples/2", made)
        ELSE PskResult("generate_psk406", pre_N, carr_N, post_N, bit_samples,
                       msg_bits, segs,
                       IF TotalLen(sig) > 0 THEN _clip_norm(sig, PeakStandards)
                       ELSE sig)

generate_psk406(prof, noise_peak) ==
    generate_psk406_cf32(prof.fs_tx, prof.hex_message, prof.phase_low,
                         prof.phase_high, prof.front_samples,
                         DefaultSilenceMs, DefaultSilenceMs, DefaultCarrierMs,
                         noise_peak)

(***************************************************************************)
(* The generic path of build_iq: a pattern, one of four modulators, and    *)
(* the final scaling.  The modulating signal m is in thousandths; a sample *)
(* of the buffer is kept in polar form, its magnitude in thousandths and   *)
(* its phase in milliradians.  Sample rates are whole kilohertz and tone   *)
(* frequencies multiples of 250 Hz, so that every angle is a whole number  *)
(* of grid steps of a turn.                                                *)
(***************************************************************************)
TwoPiMilli == 6283
PiMilli == 3142
GenericScale == 800
DefaultAmDepth == 500
DefaultPmIndex == 1000
DefaultDeviationHz == 5000

\* np.sin of a/(2h) of a turn, 0 <= a < 2h, to within two thousandths
\* (the rational approximation 16x(pi-x) / (5pi^2 - 4x(pi-x)) on a half turn)
SinGrid(a, h) ==
    LET b == IF a < h THEN a ELSE a - h
        p == b * (h - b)
        d == (5 * h * h) - (4 * p)
        v == IF p <= 130000 THEN (16000 * p) \div d
             ELSE (16 * p) \div (d \div 1000)
    IN  IF a < h THEN Min(v, 1000) ELSE -(Min(v, 1000))

\* n = int(max(1, round(fs * dur_s)))
NumSamples(fs, frame_ms) == Max(1, SamplesOf(frame_ms, fs))

\* sin(2 pi tone_hz t), t = i / fs, for i = 0 .. n-1
ToneSignal(fs, n, tone_hz) ==
    LET den == 4 * (fs \div 1000)
        num == tone_hz \div 250
    IN  [j \in 1..n |-> SinGrid((2 * num * (j - 1)) % (2 * den), den)]

\* sin(2 pi (f0 t + 0.5 k t^2)), f0 = tone_hz, k = tone_hz / dur_s
SweepSignal(fs, n, tone_hz, frame_ms) ==
    LET fk  == fs \div 1000
        den == 4 * frame_ms * fk * fk
        num == tone_hz \div 250
    IN  [j \in 1..n |->
            LET i == j - 1
            IN  SinGrid((num * ((2 * frame_ms * fk * i) + (i * i))) % (2 * den),
                        den)]

\* rng.standard_normal(n): the first n draws, in thousandths, of the stream
\* the seeded generator yields
standard_normal(stream, n) ==
    [j \in 1..n |-> stream[((j - 1) % Len(stream)) + 1]]

\* np.max(np.abs(m))
MaxAbs(m) == ForEach(LAMBDA acc, x : Max(acc, Abs(x)), m, 0)

\* m / (np.max(np.abs(m)) + 1e-12)
Normalized(m) ==
    LET mx == MaxAbs(m)
    IN  [j \in 1..Len(m) |-> IF mx = 0 THEN 0
                             ELSE IF m[j] >= 0 THEN (m[j] * 1000) \div mx
                             ELSE -((-m[j] * 1000) \div mx)]

generate_base_signal(kind, fs, frame_ms, tone_hz, stream) ==
    LET n == NumSamples(fs, frame_ms)
    IN  IF Lower(kind) = "tone" THEN ToneSignal(fs, n, tone_hz)
        ELSE IF Lower(kind) = "sweep" THEN SweepSignal(fs, n, tone_hz, frame_ms)
        ELSE IF Lower(kind) = "noise" THEN Normalized(standard_normal(stream, n))
        ELSE ToneSignal(fs, n, tone_hz)

Polar(mag, phase) == [mag |-> mag, phase |-> phase]

\* x * y / 1000 on signed thousandths, rounded toward zero
MulMilli(x, y) ==
    IF (x >= 0) = (y >= 0) THEN (Abs(x) * Abs(y)) \div 1000
    ELSE -((Abs(x) * Abs(y)) \div 1000)

mod_none(m) == [j \in 1..Len(m) |-> Polar(1000, 0)]

\* env = 1.0 + depth * m
mod_am(m, depth) ==
    [j \in 1..Len(m) |->
        LET env == 1000 + MulMilli(depth, m[j])
        IN  IF env >= 0 THEN Polar(env, 0) ELSE Polar(-env, PiMilli)]

mod_pm(m, index_rad) ==
    [j \in 1..Len(m) |-> Polar(1000, MulMilli(index_rad, m[j]))]

PhaseStep(st, d) == [sum |-> st.sum + d, out |-> Append(st.out, st.sum + d)]

\* np.cumsum
cumsum(d) == ForEach(PhaseStep, d, [sum |-> 0, out |-> <<>>]).out

mod_fm(fs, m, deviation_hz) ==
    LET mm    == Normalized(m)
        turn  == (TwoPiMilli * deviation_hz) \div fs
        dphi  == [j \in 1..Len(m) |-> MulMilli(turn, mm[j])]
        phase == cumsum(dphi)
    IN  [j \in 1..Len(m) |-> Polar(1000, phase[j])]

\* iq = 0.8 * iq
Scaled(samples) ==
    [j \in 1..Len(samples) |->
        Polar((samples[j].mag * GenericScale) \div 1000, samples[j].phase)]

\* build_iq past the dispatch on the standard
GenericPath(prof) ==
    LET fs  == prof.fs_tx
        m   == generate_base_signal(prof.pattern, fs, prof.frame_ms, prof.tone_hz,
                                    prof.rng_stream)
        mod == Lower(prof.modulation)
        out == IF mod = "am" THEN mod_am(m, prof.am_depth)
               ELSE IF mod = "pm" THEN mod_pm(m, prof.pm_index)
               ELSE IF mod = "fm" THEN mod_fm(fs, m, prof.deviation_hz)
               ELSE mod_none(m)
    IN  [status |-> "ok", m |-> m, samples |-> Scaled(out)]

(***************************************************************************)
(* The FSK-family encoders: dsc_vhf.py, dsc_hf.py and navtex.py.  Symbol   *)
(* rates and shifts are whole numbers of baud and hertz.  A result lists   *)
(* the bits that were modulated and, as for PSK-406, the sections of the   *)
(* buffer; the magnitude of a modulated section is its upper bound 1.0.    *)
(***************************************************************************)
FskMinSps == 10
FskPeak == 999
DefaultDscHex == <<"D", "5", "A", "A", "5", "5", "D", "5", "A", "A", "5", "5">>
DefaultNavtexHex == <<"5", "A", "4", "3", "5", "A", "4", "3">>
NavtexSymbolRate == 100
NavtexShiftHz == 170
DefaultHfSymbolRate == 100
DefaultVhfSymbolRate == 1200
DefaultHfCarrierMs == 20

\* a rate check that lets every sample rate through
NeverTooFew(samples, minimum) == FALSE

\* "if sps < 10: raise"
TooFewSamples(samples, minimum) == samples < minimum

FskResult(encoder, msg_bits, sps, pre_N, carr_N, post_N, noise_peak) ==
    LET sig == Sections([n |-> pre_N, mag |-> noise_peak],
                        [n |-> carr_N, mag |-> 1000],
                        [n |-> Len(msg_bits) * sps, mag |-> 1000],
                        [n |-> post_N, mag |-> noise_peak])
        out == IF TotalLen(sig) > 0 THEN _clip_norm(sig, FskPeak) ELSE sig
    IN  [status    |-> "ok",
         encoder   |-> encoder,
         bits      |-> msg_bits,
         sps       |-> sps,
         pre_N     |-> pre_N,
         carr_N    |-> carr_N,
         post_N    |-> post_N,
         sections  |-> out,
         n         |-> TotalLen(out),
         peak      |-> BufferPeak(out),
         allocated |-> <<Buffer("pre", pre_N), Buffer("carrier", carr_N),
                         Buffer("message", Len(msg_bits) * sps),
                         Buffer("post", post_N)>>]

\* generate_dsc_vhf: AFSK at symbol_rate, frequency-modulated
generate_dsc_vhf(params, noise_peak) ==
    LET fs     == params.fs_tx
        clean  == HexClean(params.hex_message)
        pre_N  == SamplesOf(params.pre_silence_ms, fs)
        post_N == SamplesOf(params.post_silence_ms, fs)
        carr_N == SamplesOf(params.carrier_ms, fs)
        made   == <<Buffer("pre", pre_N), Buffer("carrier", carr_N)>>
        sym_N  == Round(fs, params.symbol_rate)
    IN  IF params.symbol_rate <= 0
        THEN Raised("symbol_rate must be > 0")
        ELSE IF Len(clean) % 2 # 0
        THEN RaisedAfter("HEX length must be even", made)
        ELSE IF ~ValidHex(clean)
        THEN RaisedAfter("non-hexadecimal number found in fromhex()", made)
        ELSE IF TooFewSamples(sym_N, FskMinSps)
        THEN RaisedAfter("Fs too low for requested symbol_rate", made)
        ELSE FskResult("generate_dsc_vhf", _hex_to_bits(params.hex_message),
                       sym_N, pre_N, carr_N, post_N, noise_peak)

\* the body generate_dsc_hf and generate_navtex share line for line
FskGenerate(encoder, params, noise_peak) ==
    LET fs     == params.fs_tx
        clean  == HexClean(params.hex_message)
        pre_N  == SamplesOf(params.pre_silence_ms, fs)
        post_N == SamplesOf(params.post_silence_ms, fs)
        carr_N == SamplesOf(Max(0, params.carrier_ms), fs)
        made   == <<Buffer("pre", pre_N), Buffer("carrier", carr_N)>>
        sps    == Round(fs, params.symbol_rate)
    IN  IF params.symbol_rate <= 0
        THEN Raised("symbol_rate must be > 0")
        ELSE IF params.shift_hz <= 0
        THEN Raised("shift_hz must be > 0")
        ELSE IF Len(clean) % 2 # 0
        THEN RaisedAfter("HEX length must be even", made)
        ELSE IF ~ValidHex(clean)
        THEN RaisedAfter("non-hexadecimal number found in fromhex()", made)
        ELSE IF TooFewSamples(sps, FskMinSps)
        THEN RaisedAfter("Fs too low for requested symbol_rate", made)
        ELSE IF params.fsk_mode \notin {"F1B", "J2B"}
        THEN RaisedAfter("mode must be F1B or J2B", made)
        ELSE FskResult(encoder, _hex_to_bits(params.hex_message),
                       sps, pre_N, carr_N, post_N, noise_peak)

generate_dsc_hf(params, noise_peak) ==
    FskGenerate("generate_dsc_hf", params, noise_peak)

generate_navtex(params, noise_peak) ==
    FskGenerate("generate_navtex", params, noise_peak)

\* padded[:bits.size] = bits on nbytes * 8 zeros
PadToByte(bs) ==
    [j \in 1..(8 * ((Len(bs) + 7) \div 8)) |-> IF j <= Len(bs) THEN bs[j] ELSE 0]

\* np.packbits: eight bits per byte, most significant first
packbits(bs) ==
    [i \in 1..(Len(bs) \div 8) |->
        (128 * bs[(8 * i) - 7]) + (64 * bs[(8 * i) - 6]) + (32 * bs[(8 * i) - 5])
        + (16 * bs[(8 * i) - 4]) + (8 * bs[(8 * i) - 3]) + (4 * bs[(8 * i) - 2])
        + (2 * bs[(8 * i) - 1]) + bs[8 * i]]

UpperChar(c) ==
    IF \E i \in 11..16 : HexChars[i] = c
    THEN UpperHex[(CHOOSE i \in 11..16 : HexChars[i] = c) - 10]
    ELSE c

\* bytes.hex(): two lower-case digits per byte
hex(data) ==
    [j \in 1..(2 * Len(data)) |->
        IF j % 2 = 1 THEN HexChars[(data[(j + 1) \div 2] \div 16) + 1]
        ELSE HexChars[(data[j \div 2] % 16) + 1]]

\* bytes.hex().upper()
HexUpper(data) == [j \in 1..(2 * Len(data)) |-> UpperChar(hex(data)[j])]

\* call_type.lower().replace(" ", "_") on the call types the pages offer
CallScenario(call_type) ==
    CASE call_type = "All Ships"  -> "all_ships"
      [] call_type = "Individual" -> "individual"
      [] call_type = "Distress"   -> "distress"
      [] OTHER                    -> Lower(call_type)

\* the dsc_cfg build_dsc_vhf hands to the symbol builder
VhfCfg(sp) ==
    [primary_symbols     |-> <<>>,
     scenario            |-> CallScenario(sp.call_type),
     format_symbol       |-> sp.format_symbol,
     mmsi                |-> <<sp.mmsi_to>>,
     mmsi_from           |-> <<>>,
     category_symbol     |-> <<>>,
     telecommand_symbols |-> <<sp.telecommand_symbols>>,
     eos_symbol          |-> sp.eos_symbol]

\* the dsc_cfg build_dsc_hf hands to the symbol builder
HfCfg(sp) ==
    [primary_symbols     |-> <<>>,
     scenario            |-> CallScenario(sp.call_type),
     format_symbol       |-> sp.format_symbol,
     mmsi                |-> <<sp.mmsi_to>>,
     mmsi_from           |-> <<sp.mmsi_from>>,
     category_symbol     |-> <<sp.category_symbol>>,
     telecommand_symbols |-> <<sp.telecommand_symbols>>,
     eos_symbol          |-> sp.eos_symbol]

\* build_dsc_vhf: in builder mode the hex string of the framed bits is stored
\* in a copy of standard_params, and the generator is called with the profile
build_dsc_vhf(prof, noise_peak) ==
    LET framed   == build_dsc_bits(build_primary_symbols_from_cfg(VhfCfg(prof)),
                                   prof.eos_symbol)
        hex_copy == HexUpper(packbits(PadToByte(framed.value)))
    IN  IF prof.input_mode = "builder" /\ framed.status = "error"
        THEN framed
        ELSE generate_dsc_vhf(prof, noise_peak)

\* build_dsc_hf: the generator is called with the hex string of the framed
\* bits in builder mode, with the stored hex_message in hex mode
build_dsc_hf(prof, noise_peak) ==
    LET framed == build_dsc_bits(build_primary_symbols_from_cfg(HfCfg(prof)),
                                 prof.eos_symbol)
    IN  IF prof.input_mode = "builder"
        THEN IF framed.status = "error" THEN framed
             ELSE generate_dsc_hf(
                      [prof EXCEPT
                          !.hex_message = HexUpper(packbits(PadToByte(framed.value)))],
                      noise_peak)
        ELSE IF prof.input_mode = "hex"
        THEN generate_dsc_hf(prof, noise_peak)
        ELSE Raised("unknown input_mode")

\* build_navtex in hex mode: fixed 100 Bd, 170 Hz, F1B, no carrier, 25 ms
BuildNavtexParams(prof, payload_bytes) ==
    [prof EXCEPT !.hex_message = hex(payload_bytes),
                    !.symbol_rate = NavtexSymbolRate,
                    !.shift_hz = NavtexShiftHz,
                    !.fsk_mode = "F1B",
                    !.pre_silence_ms = DefaultSilenceMs,
                    !.carrier_ms = 0,
                    !.post_silence_ms = DefaultSilenceMs]

\* build_navtex for input_mode "hex" and for an input_mode it does not know
\* (the text builder is left out)
build_navtex(prof, noise_peak) ==
    LET lowered == HexClean(prof.hex_message)
    IN  IF prof.input_mode = "hex"
        THEN IF ~ValidHex(lowered)
             THEN Raised("non-hexadecimal number found in fromhex()")
             ELSE generate_navtex(BuildNavtexParams(prof, fromhex(lowered)),
                                  noise_peak)
        ELSE Raised("Unknown input_mode")

(***************************************************************************)
(* am_121p5.py: the 121.5 MHz beacon, at the level of its sections: the    *)
(* keyed part of the frame, the rest of the frame, the gap.  Depth and     *)
(* duty cycle are thousandths; the envelope magnitude is its upper bound.  *)
(***************************************************************************)
BeaconPeak == 800
DutyFull == 999

generate_121p5(params) ==
    LET fs      == params.fs_tx
        n       == NumSamples(fs, params.frame_ms)
        depth   == Max(0, Min(1000, params.am_depth))
        duty    == Max(0, Min(1000, params.duty_cycle))
        on      == IF duty >= DutyFull THEN n ELSE Round(n * duty, 1000)
        keyed   == params.signal_type = "Modulated Carrier (CW)"
        env     == IF keyed THEN 1000 ELSE 1000 + depth
        gap_N   == IF params.mode = "loop" /\ params.gap_s > 0
                   THEN SamplesOf(params.gap_s * 1000, fs) ELSE 0
        sig     == <<[n |-> on, mag |-> env], [n |-> n - on, mag |-> 0],
                     [n |-> gap_N, mag |-> 0]>>
        out     == _clip_norm(sig, BeaconPeak)
    IN  [status   |-> "ok",
         encoder  |-> "generate_121p5",
         frame_N  |-> n,
         gap_N    |-> gap_N,
         sections |-> out,
         n        |-> TotalLen(out),
         peak     |-> BufferPeak(out)]

(***************************************************************************)
(* wave_engine.py: build_iq, the dispatcher on profile["standard"].        *)
(***************************************************************************)
\* what a caller gets: the function it entered, the encoder that ran, its result
Called(entry, encoder, out) == [entry |-> entry, called |-> encoder, out |-> out]

build_iq(prof, noise_peak) ==
    IF prof.standard \in {"c406", "psk406"}
    THEN Called("build_iq", "build_psk406", build_psk406(prof))
    ELSE IF prof.standard = "ais"
    THEN Called("build_iq", "build_ais", build_ais(prof))
    ELSE IF prof.standard = "121"
    THEN Called("build_iq", "generate_121p5", generate_121p5(prof))
    ELSE IF prof.standard = "navtex"
    THEN Called("build_iq", "build_navtex", build_navtex(prof, noise_peak))
    ELSE Called("build_iq", "generic", GenericPath(prof))

(***************************************************************************)
(* The transformation stages: _apply_digital_shift (backends/hackrf.py),   *)
(* resample (core/resample.py) and _clip_norm (core/wave_engine.py).  A    *)
(* sample is a pair <<re, im>> in thousandths.  Arrays are objects: the    *)
(* heap lists the arrays that exist, an array's identity is its index, and *)
(* a stage is handed and returns an index.  Shifts are whole quarters of   *)
(* the sample rate, so that every rotation is a whole number of quarter    *)
(* turns; the samples handed to a stage lie on the real or the imaginary   *)
(* axis, so that their magnitude is |re| + |im|.                           *)
(***************************************************************************)
ResampleMinSamples == 8

\* the stage returns an array it has created
Alloc(heap, value) ==
    [status |-> "ok", heap |-> Append(heap, value), ret |-> Len(heap) + 1]

\* the stage returns the array it was handed
Same(heap, id) == [status |-> "ok", heap |-> heap, ret |-> id]

\* the stage raises
Fail(heap, msg) == [status |-> "error", heap |-> heap, ret |-> 0, error |-> msg]

\* np.abs of a sample on an axis
Mag(s) == Abs(s[1]) + Abs(s[2])

\* np.max(np.abs(x)) of a non-empty array
MaxMag(x) == CHOOSE v \in {Mag(x[i]) : i \in 1..Len(x)} :
                 \A i \in 1..Len(x) : Mag(x[i]) <= v

\* 2 * pi * shift_hz / fs in quarter turns
QuarterTurns(shift_hz, fs) == (4 * shift_hz) \div fs

\* s * exp(j * q * pi / 2)
Rot(s, q) ==
    CASE q % 4 = 0 -> s
      [] q % 4 = 1 -> <<-s[2], s[1]>>
      [] q % 4 = 2 -> <<-s[1], -s[2]>>
      [] OTHER     -> <<s[2], -s[1]>>

\* _apply_digital_shift(iq, shift_hz, fs); arr is the array object iq
_apply_digital_shift(heap, arr, shift_hz, fs) ==
    LET x == heap[arr]
    IN  IF shift_hz = 0 \/ Len(x) = 0
        THEN Same(heap, arr)
        ELSE Alloc(heap, [i \in 1..Len(x) |->
                             Rot(x[i], QuarterTurns(shift_hz, fs) * (i - 1))])

\* (x / m) * peak on one sample
ScaleTo(s, m, peak) == <<(s[1] * peak) \div m, (s[2] * peak) \div m>>

\* wave_engine._clip_norm(x, peak) on an array object
_clip_norm_iq(heap, x, peak) ==
    LET a == heap[x]
        m == IF Len(a) > 0 THEN MaxMag(a) ELSE 1000
    IN  IF m = 0 THEN Same(heap, x)
        ELSE IF m > peak
        THEN Alloc(heap, [i \in 1..Len(a) |-> ScaleTo(a[i], m, peak)])
        ELSE Same(heap, x)

\* an output length taken from the inverse ratio
OutLengthsInverse(N, fs_in, fs_out) ==
    IF fs_in <= 0 \/ fs_out <= 0 THEN {0} ELSE {Round(N * fs_in, fs_out)}

\* int(round(iq.size / float(fs_in) * fs_out)): the quotient is rounded to a
\* double before the product, so an exact half comes out on either side
OutLengths(N, fs_in, fs_out) ==
    IF fs_in <= 0 \/ fs_out <= 0 THEN {0}
    ELSE IF 2 * ((N * fs_out) % fs_in) = fs_in
    THEN {(N * fs_out) \div fs_in, ((N * fs_out) \div fs_in) + 1}
    ELSE {Round(N * fs_out, fs_in)}

\* np.interp at np.linspace(0, N - 1, N_out), each component rounded down
\* to a thousandth
Interp(x, N_out) ==
    LET N   == Len(x)
        den == N_out - 1
        at(k) == LET q == (k * (N - 1)) \div den
                     r == (k * (N - 1)) % den
                     a == x[q + 1]
                     b == x[Min(q + 2, N)]
                 IN  <<((a[1] * (den - r)) + (b[1] * r)) \div den,
                       ((a[2] * (den - r)) + (b[2] * r)) \div den>>
    IN  [k \in 1..N_out |-> at(k - 1)]

\* a length check that lets every result through
NeverTooShort(n) == FALSE

\* "if result.size < 8: raise"
TooShort(n) == n < ResampleMinSamples

\* resample(iq, fs_in, fs_out); arr is the array object iq, N_out the length
\* computed from it
resample(heap, arr, fs_in, fs_out, N_out) ==
    LET x == heap[arr]
    IN  IF fs_in <= 0 \/ fs_out <= 0
        THEN Fail(heap, "Invalid sample rates")
        ELSE IF fs_in = fs_out
        THEN Alloc(heap, x)
        ELSE IF Len(x) = 0
        THEN Alloc(heap, <<>>)
        ELSE IF N_out <= 0
        THEN Alloc(heap, <<>>)
        ELSE IF N_out = 1
        THEN Alloc(heap, SubSeq(x, 1, 1))
        ELSE IF TooShort(Len(Interp(x, N_out)))
        THEN Fail(heap, "Resample resulted in too few samples")
        ELSE Alloc(heap, Interp(x, N_out))

\* what is recorded of a call: the stage, the array handed to it and its
\* samples at the call, the parameters, and the outcome
StageCall(stage, arg, before, params, res) ==
    [stage |-> stage, arg |-> arg, before |-> before, params |-> params,
     status |-> res.status, ret |-> res.ret]

(***************************************************************************)
(* backends/hackrf.py: HackRFTx.run_loop.  A sample file is its suffix,    *)
(* whether it exists, and its size (float32 values for cf32, bytes for     *)
(* sc8).  Frequencies are whole hertz, the gap whole seconds.  What is     *)
(* handed to hackrf_transfer is the -f frequency, the loop flag and the    *)
(* sample file: its frame bytes, the shift its samples went through and    *)
(* its gap bytes.                                                          *)
(***************************************************************************)
\* HackRFTx.__init__
NewHackRFTx == [proc |-> "none", pid |-> 0, cmdline |-> <<>>, runs |-> <<>>]

\* is_running: proc is not None and proc.poll() is None
is_running(self) == self.proc = "running"

\* suffix.lower() on the suffixes sample files carry
LowerSuffix(suffix) ==
    CASE suffix = ".CF32" -> ".cf32"
      [] suffix = ".IQ"   -> ".iq"
      [] suffix = ".SC8"  -> ".sc8"
      [] OTHER            -> suffix

TxRaised(self, req, kind, msg) ==
    [self |-> self,
     out  |-> [status |-> "error", kind |-> kind, error |-> msg, req |-> req]]

\* run_loop(iq_path, fs_tx, target_hz, tx_gain_db, if_offset_hz, freq_corr_hz,
\* pa_enabled, mode, gap_s); spawned tells whether Popen started the process,
\* new_pid is the process id it then has
run_loop(self, req, spawned, new_pid) ==
    LET counted          == [self EXCEPT !.runs = <<1, 1>>]
        center_hz        == req.target_hz + req.if_offset_hz + req.freq_corr_hz
        digital_shift_hz == -(req.if_offset_hz + req.freq_corr_hz)
        is_cf32          == LowerSuffix(req.suffix) \in {".cf32", ".iq"}
        shift_applied    == IF is_cf32 THEN digital_shift_hz ELSE 0
        sc8_bytes        == IF is_cf32 THEN 2 * (req.size \div 2) ELSE req.size
        gap_samples      == req.gap_s * req.fs_tx
        gap_bytes        == IF gap_samples > 0 THEN gap_samples * 2 ELSE 0
        use_loop_flag    == req.mode = "loop"
        cmd              == [f |-> center_hz, s |-> req.fs_tx, x |-> req.tx_gain_db,
                             a |-> req.pa_enabled, R |-> use_loop_flag,
                             t |-> IF use_loop_flag THEN "_loop" ELSE "_once"]
        armed            == [counted EXCEPT !.cmdline = <<cmd>>]
    IN  IF is_running(self)
        THEN TxRaised(counted, req, "RuntimeError", "HackRF already running")
        ELSE IF ~req.exists
        THEN TxRaised(counted, req, "FileNotFoundError", "IQ file not found")
        ELSE IF is_cf32 /\ req.size % 2 # 0
        THEN TxRaised(counted, req, "ValueError", "cf32 file has odd number of floats")
        ELSE IF ~spawned
        THEN TxRaised(armed, req, "OSError", "Popen failed")
        ELSE [self |-> [armed EXCEPT !.proc = "running", !.pid = new_pid],
              out  |-> [status        |-> "ok",
                        req           |-> req,
                        center_hz     |-> cmd.f,
                        shift_applied |-> shift_applied,
                        is_cf32       |-> is_cf32,
                        frame_bytes   |-> sc8_bytes,
                        gap_bytes     |-> gap_bytes,
                        final_bytes   |-> sc8_bytes + gap_bytes,
                        loop_flag     |-> use_loop_flag]]

\* stop(): nothing without a process; otherwise terminate, wait, kill, wait
\* (and taskkill on Windows), every failure swallowed, then proc and pid are
\* set to None, whether or not the process was ended by these steps
stop(self) ==
    IF self.proc = "none" THEN self
    ELSE [self EXCEPT !.proc = "none", !.pid = 0]

(***************************************************************************)
(* The seeded noise of the encoders: np.random.default_rng, _gen_noise and *)
(* the "noise" pattern of generate_base_signal.  The generator's state is  *)
(* kept to 16 bits: seeding fixes it, every draw advances it, and a drawn  *)
(* value is a function of it.  A noise sample is the pair of its I and Q   *)
(* draws, each times the linear amplitude.                                 *)
(***************************************************************************)
\* rng_seed's default, and the seed generate_base_signal always uses
DefaultRngSeed == 12345
BaseNoiseSeed == 12345

\* _dbfs_to_linear(noise_dbfs) for the default -60 dBFS, in thousandths
NoiseAmp == 1

default_rng(seed) == [state |-> ((seed * 40503) + 25) % 65536]

RngAdvance(g) == [state |-> ((g.state * 25173) + 13849) % 65536]

RngValue(g) == (g.state \div 256) - 128

RECURSIVE Draws(_, _)
\* rng.normal(0.0, sigma, size=n): the n values drawn and the generator after
Draws(g, n) ==
    IF n <= 0 THEN [values |-> <<>>, gen |-> g]
    ELSE LET g1   == RngAdvance(g)
             rest == Draws(g1, n - 1)
         IN  [values |-> <<RngValue(g1)>> \o rest.values, gen |-> rest.gen]

\* _gen_noise: n draws for I, then n draws for Q, none for n <= 0
_gen_noise(n, amp_lin, g) ==
    IF n <= 0 THEN [samples |-> <<>>, gen |-> g]
    ELSE LET ni == Draws(g, n)
             nq == Draws(ni.gen, n)
         IN  [samples |-> [k \in 1..n |->
                              <<amp_lin * ni.values[k], amp_lin * nq.values[k]>>],
              gen     |-> nq.gen]

\* the generator a call carries over from an earlier call: none
ReusedGenerator(seed, earlier) ==
    IF earlier = [state |-> -1] THEN default_rng(seed) ELSE earlier

\* "rng = np.random.default_rng(rng_seed)" in the body of the call: the
\* generator is a local made from the seed, whatever earlier calls left
CallGenerator(seed, earlier) == default_rng(seed)

\* the noise of one synthesis call: the pre-silence drawn first, the
\* post-silence from the same generator after the message was built
NoiseOfCall(cfg, earlier) ==
    LET fs == cfg.fs_tx
    IN  IF cfg.encoder = "generate_base_signal"
        THEN LET g == CallGenerator(BaseNoiseSeed, earlier)
                 m == Draws(g, NumSamples(fs, cfg.frame_ms))
             IN  [pre |-> m.values, post |-> <<>>, gen |-> m.gen]
        ELSE LET g    == CallGenerator(cfg.rng_seed, earlier)
                 pre  == _gen_noise(SamplesOf(cfg.pre_silence_ms, fs), NoiseAmp, g)
                 post == _gen_noise(SamplesOf(cfg.post_silence_ms, fs), NoiseAmp,
                                    pre.gen)
             IN  [pre |-> pre.samples, post |-> post.samples, gen |-> post.gen]

(***************************************************************************)
(* core/recording.py: save_sc8.  Samples are pairs <<re, im>> in           *)
(* thousandths lying on an axis; a scaled component is kept as an exact    *)
(* ratio until it is converted to int8.                                    *)
(***************************************************************************)
\* np.clip(v, -128, 127) of the ratio v = num / den, den > 0
ClipInt8(num, den) ==
    IF num < (-128) * den THEN (-128) * den
    ELSE IF num > 127 * den THEN 127 * den
    ELSE num

\* .astype(np.int8) of the in-range ratio num / den: the fraction is dropped
AsInt8(num, den) ==
    IF num >= 0 THEN num \div den ELSE -((-num) \div den)

\* "mx = float(np.max(np.abs(iq))) if iq.size else 1.0; if mx < 1e-12: mx = 1.0"
Sc8Peak(arr) ==
    LET mx == IF Len(arr) > 0 THEN MaxMag(arr) ELSE 1000
    IN  IF mx < 1 THEN 1000 ELSE mx

\* np.clip(component * (0.8 / mx) * 127.0, -128, 127).astype(np.int8)
Sc8Component(c, mx) == AsInt8(ClipInt8(c * 8 * 127, 10 * mx), 10 * mx)

\* save_sc8: the interleaved int8 values written to the file
save_sc8(arr) ==
    LET mx == Sc8Peak(arr)
    IN  [k \in 1..(2 * Len(arr)) |->
            Sc8Component(arr[(k + 1) \div 2][IF k % 2 = 1 THEN 1 ELSE 2], mx)]

(***************************************************************************)
(* wave_engine.py: _gaussian_filter_ais.  The kernel is the list of its    *)
(* tap times t = k / sps, kept as the whole numbers k; the weight of a tap *)
(* is exp(-0.5 (t / sigma)^2) over the sum, a function of |k| alone.       *)
(***************************************************************************)
\* Python's a // b for b > 0: the quotient rounded toward minus infinity
FloorDiv(a, b) ==
    IF a >= 0 THEN a \div b
    ELSE IF (-a) % b = 0 THEN -((-a) \div b)
    ELSE -((-a) \div b) - 1

\* np.arange(lo, hi): lo, lo + 1, ..., hi - 1
Arange(lo, hi) == [j \in 1..Max(0, hi - lo) |-> lo + (j - 1)]

\* "taps = span_symbols * sps; np.arange(-taps // 2, taps // 2 + 1)": the
\* unary minus applies to taps before the floor division
_gaussian_filter_ais(sps, span_symbols) ==
    LET taps == span_symbols * sps
    IN  Arange(FloorDiv(-taps, 2), FloorDiv(taps, 2) + 1)

(***************************************************************************)
(* ui_qt/pages/page_121.py: Page121._start_hackrf, the transmit path of    *)
(* the 121.5 MHz page: build_iq on the profile with a frame of one second, *)
(* the buffer written as a temporary cf32 file, run_loop on a new HackRFTx *)
(* with the schedule's mode and gap.                                       *)
(***************************************************************************)
_start_hackrf(prof, spawned, new_pid) ==
    LET built   == build_iq([prof EXCEPT !.frame_ms = 1000], 0)
        tx_mode == IF prof.mode = "loop" THEN "loop" ELSE "once"
        req     == [suffix       |-> ".cf32",
                    exists       |-> TRUE,
                    size         |-> 2 * built.out.n,
                    fs_tx        |-> prof.fs_tx,
                    target_hz    |-> prof.target_hz,
                    if_offset_hz |-> prof.if_offset_hz,
                    freq_corr_hz |-> prof.freq_corr_hz,
                    tx_gain_db   |-> prof.tx_gain_db,
                    pa_enabled   |-> prof.pa,
                    mode         |-> tx_mode,
                    gap_s        |-> prof.gap_s]
    IN  [iq |-> built, tx |-> run_loop(NewHackRFTx, req, spawned, new_pid)]

(***************************************************************************)
(* Inputs.                                                                 *)
(***************************************************************************)
SeqsUpTo(S, n) == UNION {[1..k -> S] : k \in 0..n}

BitArrays == SeqsUpTo({0, 1}, MaxBits)

HexAlphabet == {"0", "7", "f", " ", "g"}
HexMessages == SeqsUpTo(HexAlphabet, MaxHexLen)
PatternHexes == {<<>>, <<"7", "e">>, <<"a", "5", "3", "c">>,
                 <<"1", "f", " ", "f", "8">>, <<"d", "f", "b", "e", "9", "6">>}
AisRates == {9600, 19200, 96000}

\* hex_message takes precedence; pattern.hex is read when it is empty
AisProfiles ==
    {[hex_message |-> h, pattern_hex |-> <<>>, fs_tx |-> f] :
        h \in HexMessages, f \in AisRates}
    \cup
    {[hex_message |-> h, pattern_hex |-> p, fs_tx |-> f] :
        h \in {<<>>, <<" ">>, <<"0", "0">>}, p \in PatternHexes, f \in AisRates}

NoProfile == [hex_message |-> <<>>, pattern_hex |-> <<>>, fs_tx |-> 0]

\* DSC symbols the explicit lists are drawn from: 128 is out of range
SymbolSet == {0, 85, 112, 127, 128}
ExplicitPrimaries == SeqsUpTo(SymbolSet, MaxPrimary) \ {<<>>}
EosSymbols == {127, 117}

Scenarios == {"all_ships", "ALL_SHIPS", "individual", "distress", "lab"}
Mmsis == {<<>>,
          <<DefaultMmsi>>,
          <<Text(<<1, 2>>) \o <<"-">> \o Text(<<3, 4>>)>>,
          <<Text(<<1, 2, 3, 4, 5, 6, 7, 8, 9, 0, 1>>)>>}
MmsisFrom == {<<>>, <<Text(<<5>>)>>, <<Text(<<2, 3, 0, 1, 2, 3, 4, 5, 6, 7>>)>>}
Telecommands == {<<>>, <<<<>>>>, <<<<118, 126, 126>>>>, <<<<130>>>>}

DefaultCfg ==
    [primary_symbols     |-> <<>>,
     scenario            |-> "all_ships",
     format_symbol       |-> <<>>,
     mmsi                |-> <<>>,
     mmsi_from           |-> <<>>,
     category_symbol     |-> <<>>,
     telecommand_symbols |-> <<>>,
     eos_symbol          |-> 127]

DscCfgs ==
    {[DefaultCfg EXCEPT !.primary_symbols = ps, !.eos_symbol = e] :
        ps \in ExplicitPrimaries, e \in EosSymbols}
    \cup
    {[primary_symbols     |-> <<>>,
      scenario            |-> sc,
      format_symbol       |-> f,
      mmsi                |-> mt,
      mmsi_from           |-> mf,
      category_symbol     |-> c,
      telecommand_symbols |-> t,
      eos_symbol          |-> e] :
        sc \in Scenarios, f \in {<<>>, <<120>>}, mt \in Mmsis, mf \in MmsisFrom,
        c \in {<<>>, <<108>>}, t \in Telecommands, e \in EosSymbols}

Symbols == (-1)..128

\* the default message, and one byte, spaces, an odd length, a bad digit
DefaultHexMessage ==
    <<"F", "F", "F", "E", "D", "0", "8", "0", "0", "2", "0", "0",
      "0", "0", "0", "0", "7", "F", "D", "F", "F", "B", "0", "0",
      "2", "0", "B", "7", "8", "3", "E", "0", "F", "6", "6", "C">>
PskHexMessages == {DefaultHexMessage, <<"A", "5">>, <<"a", "5", " ", "3", "c">>,
                   <<"F", "F", "F">>, <<"G", "G">>, <<>>}
PskRates == {1000000, 48000, 4200, 3000}
FrontSamples == {75, 0, 14, 30, 400, 625, 1250}
DefaultPhaseLow == -1100
DefaultPhaseHigh == 1100
DefaultGapS == 8

DefaultPskProfile ==
    [fs_tx           |-> 1000000,
     hex_message     |-> DefaultHexMessage,
     phase_low       |-> DefaultPhaseLow,
     phase_high      |-> DefaultPhaseHigh,
     front_samples   |-> 75,
     carrier_ms      |-> DefaultCarrierMs,
     pre_silence_ms  |-> DefaultSilenceMs,
     post_silence_ms |-> DefaultSilenceMs,
     mode            |-> "loop",
     gap_s           |-> DefaultGapS]

PskProfiles ==
    {[DefaultPskProfile EXCEPT !.fs_tx = f, !.hex_message = h,
                               !.front_samples = fr, !.carrier_ms = c,
                               !.pre_silence_ms = pre,
                               !.post_silence_ms = post, !.mode = md,
                               !.gap_s = g] :
        f \in PskRates, h \in PskHexMessages, fr \in FrontSamples,
        c \in {DefaultCarrierMs, 0}, pre \in {DefaultSilenceMs, 0},
        post \in {DefaultSilenceMs, 1},
        md \in {"loop", "repeat"}, g \in {DefaultGapS, 0}}

\* the largest noise magnitude of a silence, in thousandths, at -60 dBFS
NoisePeaks == {3, 5}

Patterns == {"Tone", "Sweep", "Noise", "FF00", "5555"}
Modulations == {"None", "AM", "FM", "PM"}
GenericRates == {8000, 12000, 24000}
FrameMs == {1, 2}
ToneHz == {1000, 250}
AmDepths == {0, DefaultAmDepth, 1000}
NoiseStreams ==
    {<<-1424, 1264, -871, -259, -75, -741, -1368, 649, 361, -1953>>,
     <<312, -2210, 45, 1730, -998, 0, 2604, -127>>}

DefaultGenProfile ==
    [fs_tx        |-> 8000,
     frame_ms     |-> 1,
     pattern      |-> "Tone",
     tone_hz      |-> 1000,
     modulation   |-> "None",
     am_depth     |-> DefaultAmDepth,
     pm_index     |-> DefaultPmIndex,
     deviation_hz |-> DefaultDeviationHz,
     rng_stream   |-> <<1000>>]

GenProfiles ==
    {[DefaultGenProfile EXCEPT !.fs_tx = f, !.frame_ms = d, !.pattern = p,
                               !.tone_hz = t, !.modulation = md,
                               !.am_depth = a, !.rng_stream = r] :
        f \in GenericRates, d \in FrameMs, p \in Patterns, t \in ToneHz,
        md \in Modulations, a \in AmDepths, r \in NoiseStreams}

\* a profile with every field an encoder reads, defaults applied
DefaultEncProfile ==
    [standard            |-> "basic",
     fs_tx               |-> 48000,
     frame_ms            |-> 1,
     hex_message         |-> DefaultDscHex,
     pattern_hex         |-> <<>>,
     input_mode          |-> "hex",
     symbol_rate         |-> DefaultHfSymbolRate,
     shift_hz            |-> NavtexShiftHz,
     fsk_mode            |-> "F1B",
     pre_silence_ms      |-> DefaultSilenceMs,
     post_silence_ms     |-> DefaultSilenceMs,
     carrier_ms          |-> DefaultHfCarrierMs,
     call_type           |-> "All Ships",
     mmsi_to             |-> DefaultMmsi,
     mmsi_from           |-> DefaultMmsiFrom,
     format_symbol       |-> <<>>,
     category_symbol     |-> 100,
     telecommand_symbols |-> <<126, 126>>,
     eos_symbol          |-> 127,
     phase_low           |-> DefaultPhaseLow,
     phase_high          |-> DefaultPhaseHigh,
     front_samples       |-> 0,
     mode                |-> "loop",
     gap_s               |-> 0,
     signal_type         |-> "Continuous Tone",
     duty_cycle          |-> 1000,
     pattern             |-> "Tone",
     tone_hz             |-> 1000,
     modulation          |-> "None",
     am_depth            |-> DefaultAmDepth,
     pm_index            |-> DefaultPmIndex,
     deviation_hz        |-> DefaultDeviationHz,
     rng_stream          |-> <<1000, -500>>]

EncHexMessages == {DefaultDscHex, <<"a", "5">>, <<"A", "5", "F">>, <<"G", "G">>}

AisEncProfiles ==
    {[DefaultEncProfile EXCEPT !.standard = "ais", !.fs_tx = f, !.hex_message = h] :
        f \in {9600, 19200, 48000, 96000}, h \in EncHexMessages \cup {<<>>}}

PskEncProfiles ==
    {[DefaultEncProfile EXCEPT !.standard = st, !.fs_tx = f, !.hex_message = h,
                               !.front_samples = fr, !.carrier_ms = DefaultCarrierMs] :
        st \in {"c406", "psk406"}, f \in {3000, 3800, 4200, 48000},
        h \in EncHexMessages, fr \in {0, 14, 30}}

VhfEncProfiles ==
    {[DefaultEncProfile EXCEPT !.standard = "dsc_vhf", !.fs_tx = f,
                               !.symbol_rate = r, !.hex_message = h,
                               !.input_mode = im, !.call_type = ct,
                               !.eos_symbol = e, !.carrier_ms = DefaultCarrierMs] :
        f \in {48000, 12000, 9000}, r \in {DefaultVhfSymbolRate, 0},
        h \in EncHexMessages, im \in {"hex", "builder"},
        ct \in {"All Ships", "Individual"}, e \in {127, 128}}

HfEncProfiles ==
    {[DefaultEncProfile EXCEPT !.standard = "dsc_hf", !.fs_tx = f,
                               !.symbol_rate = r, !.shift_hz = sh,
                               !.fsk_mode = fm, !.hex_message = h,
                               !.input_mode = im] :
        f \in {48000, 1000}, r \in {DefaultHfSymbolRate, 200, 0},
        sh \in {NavtexShiftHz, 0}, fm \in {"F1B", "J2B", "F3E"},
        h \in EncHexMessages, im \in {"hex", "builder", "raw"}}

NavtexEncProfiles ==
    {[DefaultEncProfile EXCEPT !.standard = "navtex", !.fs_tx = f,
                               !.hex_message = h, !.input_mode = im] :
        f \in {48000, 950, 900}, h \in EncHexMessages \cup {DefaultNavtexHex},
        im \in {"hex", "raw"}}

BeaconEncProfiles ==
    {[DefaultEncProfile EXCEPT !.standard = "121", !.fs_tx = 8000,
                               !.signal_type = t, !.duty_cycle = d,
                               !.mode = md, !.gap_s = g] :
        t \in {"Continuous Tone", "Modulated Carrier (CW)"}, d \in {1000, 500},
        md \in {"loop", "repeat"}, g \in {0, 2}}

BasicEncProfiles ==
    {[DefaultEncProfile EXCEPT !.standard = "basic", !.fs_tx = 8000,
                               !.pattern = p, !.modulation = md] :
        p \in {"Tone", "Noise"}, md \in Modulations}

EncProfiles ==
    AisEncProfiles \cup PskEncProfiles \cup VhfEncProfiles \cup HfEncProfiles
    \cup NavtexEncProfiles \cup BeaconEncProfiles \cup BasicEncProfiles

NoCall == Called("none", "none", NoResult)

\* arrays handed to a stage: a ramp below every peak target, an array above
\* it, and silence, of every length up to MaxSamples
Ramp(n) == [i \in 1..n |-> <<100 * i, 0>>]
Loud(n) == [i \in 1..n |-> IF i % 2 = 1 THEN <<1200, 0>> ELSE <<0, -1200>>]
Silent(n) == [i \in 1..n |-> <<0, 0>>]
XfBuffers == UNION {{Ramp(n), Loud(n), Silent(n)} : n \in 0..MaxSamples}
XfRates == {1000, 2000, 3000, 8000, 0, -1000}
ShiftRates == {8000, 4000}
ShiftsHz == {0, 2000, -2000, 4000}
ClipPeaks == {950, 999}
NoStage == [stage |-> "none", arg |-> 0, before |-> <<>>, params |-> <<>>,
            status |-> "none", ret |-> 0]

\* run_loop calls: cf32 and sc8 frame files (one cf32 file with an odd number
\* of floats, one path with no file), the AIS target, an IF offset and a
\* frequency correction
MaxPid == 2
TxFiles ==
    {[suffix |-> ".cf32", exists |-> TRUE, size |-> 16],
     [suffix |-> ".cf32", exists |-> TRUE, size |-> 15],
     [suffix |-> ".IQ", exists |-> TRUE, size |-> 16],
     [suffix |-> ".sc8", exists |-> TRUE, size |-> 16],
     [suffix |-> ".sc8", exists |-> FALSE, size |-> 0]}
TxIfOffsets == {0, -25000}
TxFreqCorr == {0, 120}
TxRequests ==
    {[suffix |-> f.suffix, exists |-> f.exists, size |-> f.size,
      fs_tx |-> 2000000, target_hz |-> 162025000, if_offset_hz |-> o,
      freq_corr_hz |-> c, tx_gain_db |-> 30, pa_enabled |-> FALSE,
      mode |-> md, gap_s |-> g] :
        f \in TxFiles, o \in TxIfOffsets, c \in TxFreqCorr,
        md \in {"loop", "once"}, g \in {0, 2}}
NoTx == [status |-> "none"]

MaxCalls == 2

NoGenerator == [state |-> -1]

NoiseEncoders == {"generate_dsc_hf", "generate_psk406_cf32", "generate_base_signal"}

NoiseConfigs ==
    [encoder         : NoiseEncoders,
     fs_tx           : {1000},
     rng_seed        : {DefaultRngSeed, 7},
     pre_silence_ms  : {0, 1, 2},
     post_silence_ms : {0, 1},
     frame_ms        : {2}]

MaxSc8Len == 2

Sc8Values == {0, 250, 500, 1000, -250, -500, -1000}

Sc8Samples == {<<v, 0>> : v \in Sc8Values} \cup {<<0, v>> : v \in Sc8Values}

Sc8Buffers == SeqsUpTo(Sc8Samples, MaxSc8Len)

MaxSps == 10
MaxSpan == 6

GaussArgs == [sps : 1..MaxSps, span_symbols : 1..MaxSpan]

MaxMmsiTail == 3

MmsiAlphabet == {"0", "1", "9", "-", "sup2"}

\* short strings, and strings of nine digits and more
MmsiTexts ==
    {head \o tail : head \in {<<>>, Text(<<1, 2, 3, 4, 5, 6, 7, 8, 9>>)},
                    tail \in SeqsUpTo(MmsiAlphabet, MaxMmsiTail)}

Page121Profiles ==
    {[[k \in DOMAIN DefaultEncProfile \cup
             {"target_hz", "if_offset_hz", "freq_corr_hz", "tx_gain_db", "pa"} |->
         CASE k = "target_hz"    -> 121500000
           [] k = "if_offset_hz" -> o
           [] k = "freq_corr_hz" -> 0
           [] k = "tx_gain_db"   -> 30
           [] k = "pa"           -> FALSE
           [] OTHER              -> DefaultEncProfile[k]]
      EXCEPT !.standard = "121", !.fs_tx = f, !.signal_type = t,
             !.duty_cycle = d, !.mode = md, !.gap_s = g] :
        f \in {1000, 2000}, o \in {0, -25000},
        t \in {"Continuous Tone", "Modulated Carrier (CW)", "Swept Tone (300-1600 Hz)"},
        d \in {1000, 500}, md \in {"loop", "repeat"}, g \in {0, 1, 8}}

AisIdle == profile = NoProfile /\ ais = NoResult
BitsIdle == bits = <<>> /\ bits_stuffed = NoResult /\ nrzi_symbols = NoResult
TenbitIdle == sym = 0 /\ tenbit = NoResult
DscIdle == dsc_cfg = DefaultCfg /\ primary_symbols = NoResult /\ dsc_bits = NoResult
PskIdle == psk_profile = DefaultPskProfile /\ psk_sig = NoResult
GenIdle == gen_profile = DefaultGenProfile /\ iq = NoResult
EncIdle == enc_profile = DefaultEncProfile /\ enc_out = NoCall
XfIdle == xf_heap = <<<<>>>> /\ xf_call = NoStage
TxIdle == hackrf = NewHackRFTx /\ tx_call = NoTx
NoiseIdle == synth_calls = <<>> /\ last_rng = NoGenerator
Sc8Idle == sc8_iq = <<>> /\ sc8_file = NoResult
GaussIdle == gauss_args = [sps |-> 1, span_symbols |-> 1] /\ gauss_taps = NoResult
VhfIdle == vhf_primary_symbols = NoResult /\ vhf_dsc_bits = NoResult
MmsiIdle == mmsi_text = <<>> /\ mmsi_out = NoResult
ProcIdle == transfers = [started |-> 0, alive |-> {}]
Page121Idle == p121_prof = DefaultEncProfile /\ p121_iq = NoCall

aisVars == <<profile, ais>>
bitVars == <<bits, bits_stuffed, nrzi_symbols>>
tenbitVars == <<sym, tenbit>>
dscVars == <<dsc_cfg, primary_symbols, dsc_bits>>
pskVars == <<psk_profile, psk_sig>>
genVars == <<gen_profile, iq>>
encVars == <<enc_profile, enc_out>>
xfVars == <<xf_heap, xf_call>>
txVars == <<hackrf, tx_call>>
page121Vars == <<p121_prof, p121_iq>>
procVars == <<transfers>>
mmsiVars == <<mmsi_text, mmsi_out>>
vhfVars == <<vhf_primary_symbols, vhf_dsc_bits>>
gaussVars == <<gauss_args, gauss_taps>>
sc8Vars == <<sc8_iq, sc8_file>>
noiseVars == <<synth_calls, last_rng>>

(***************************************************************************)
(* Bit level: the stuffer and the NRZI encoder applied to any bit array.   *)
(***************************************************************************)
BitStuff ==
    /\ bits_stuffed.status = "none"
    /\ bits_stuffed' = [status |-> "ok", value |-> _bit_stuff_ais(bits)]
    /\ UNCHANGED <<bits, nrzi_symbols, aisVars, tenbitVars, dscVars, pskVars, genVars,
                 encVars,
                 xfVars, txVars, noiseVars, sc8Vars, gaussVars, vhfVars, mmsiVars, procVars, page121Vars>>

NrziEncode ==
    /\ nrzi_symbols.status = "none"
    /\ nrzi_symbols' = [status |-> "ok", value |-> _nrzi_encode_ais(bits)]
    /\ UNCHANGED <<bits, bits_stuffed, aisVars, tenbitVars, dscVars, pskVars, genVars,
                 encVars,
                 xfVars, txVars, noiseVars, sc8Vars, gaussVars, vhfVars, mmsiVars, procVars, page121Vars>>

InitBits ==
    /\ bits \in BitArrays
    /\ bits_stuffed = NoResult
    /\ nrzi_symbols = NoResult
    /\ AisIdle /\ TenbitIdle /\ DscIdle /\ PskIdle /\ GenIdle /\ EncIdle /\ XfIdle
    /\ TxIdle
    /\ NoiseIdle
    /\ Sc8Idle
    /\ GaussIdle
    /\ VhfIdle
    /\ MmsiIdle
    /\ ProcIdle
    /\ Page121Idle

NextBits == BitStuff \/ NrziEncode

SpecBits == InitBits /\ [][NextBits]_vars

(***************************************************************************)
(* AIS: build_ais applied to a profile.                                    *)
(***************************************************************************)
BuildAis ==
    /\ ais.status = "none"
    /\ ais' = build_ais(profile)
    /\ UNCHANGED <<profile, bitVars, tenbitVars, dscVars, pskVars, genVars,
                 encVars,
                 xfVars, txVars, noiseVars, sc8Vars, gaussVars, vhfVars, mmsiVars, procVars, page121Vars>>

InitAis ==
    /\ profile \in AisProfiles
    /\ ais = NoResult
    /\ BitsIdle /\ TenbitIdle /\ DscIdle /\ PskIdle /\ GenIdle /\ EncIdle /\ XfIdle
    /\ TxIdle
    /\ NoiseIdle
    /\ Sc8Idle
    /\ GaussIdle
    /\ VhfIdle
    /\ MmsiIdle
    /\ ProcIdle
    /\ Page121Idle

NextAis == BuildAis

SpecAis == InitAis /\ [][NextAis]_vars

(***************************************************************************)
(* DSC: one symbol through the ten-bit encoder.                            *)
(***************************************************************************)
EncodeSymbol ==
    /\ tenbit.status = "none"
    /\ tenbit' = IF ValidSymbol(sym)
                 THEN [status |-> "ok",
                       value  |-> _primary7_to_tenbit(_symbol_to_primary7(sym))]
                 ELSE Raised("Symbol out of range 0..127")
    /\ UNCHANGED <<sym, aisVars, bitVars, dscVars, pskVars, genVars,
                 encVars,
                 xfVars, txVars, noiseVars, sc8Vars, gaussVars, vhfVars, mmsiVars, procVars, page121Vars>>

InitTenbit ==
    /\ sym \in Symbols
    /\ tenbit = NoResult
    /\ AisIdle /\ BitsIdle /\ DscIdle /\ PskIdle /\ GenIdle /\ EncIdle /\ XfIdle
    /\ TxIdle
    /\ NoiseIdle
    /\ Sc8Idle
    /\ GaussIdle
    /\ VhfIdle
    /\ MmsiIdle
    /\ ProcIdle
    /\ Page121Idle

NextTenbit == EncodeSymbol

SpecTenbit == InitTenbit /\ [][NextTenbit]_vars

(***************************************************************************)
(* DSC: the symbol builder, then the frame builder, as the encoders call   *)
(* them (dsc_hf.py and dsc_vhf.py, builder input mode).                    *)
(***************************************************************************)
BuildPrimary ==
    /\ primary_symbols.status = "none"
    /\ primary_symbols' = [status |-> "ok",
                           value  |-> build_primary_symbols_from_cfg(dsc_cfg)]
    /\ UNCHANGED <<dsc_cfg, dsc_bits, aisVars, bitVars, tenbitVars, pskVars,
                 genVars,
                 encVars,
                 xfVars, txVars, noiseVars, sc8Vars, gaussVars, vhfVars, mmsiVars, procVars, page121Vars>>

BuildDscBits ==
    /\ primary_symbols.status = "ok"
    /\ dsc_bits.status = "none"
    /\ dsc_bits' = build_dsc_bits(primary_symbols.value, dsc_cfg.eos_symbol)
    /\ UNCHANGED <<dsc_cfg, primary_symbols, aisVars, bitVars, tenbitVars, pskVars,
                 genVars,
                 encVars,
                 xfVars, txVars, noiseVars, sc8Vars, gaussVars, vhfVars, mmsiVars, procVars, page121Vars>>

InitDsc ==
    /\ dsc_cfg \in DscCfgs
    /\ primary_symbols = NoResult
    /\ dsc_bits = NoResult
    /\ AisIdle /\ BitsIdle /\ TenbitIdle /\ PskIdle /\ GenIdle /\ EncIdle /\ XfIdle
    /\ TxIdle
    /\ NoiseIdle
    /\ Sc8Idle
    /\ GaussIdle
    /\ VhfIdle
    /\ MmsiIdle
    /\ ProcIdle
    /\ Page121Idle

NextDsc == BuildPrimary \/ BuildDscBits

SpecDsc == InitDsc /\ [][NextDsc]_vars

(***************************************************************************)
(* The two framing modules side by side: dsc_common's functions are run on *)
(* a configuration, then dsc_vhf's own on the same configuration.          *)
(***************************************************************************)
VhfBuildPrimary ==
    /\ dsc_bits.status # "none"
    /\ vhf_primary_symbols.status = "none"
    /\ vhf_primary_symbols' =
          [status |-> "ok", value |-> vhf_build_primary_symbols_from_cfg(dsc_cfg)]
    /\ UNCHANGED <<vhf_dsc_bits, dscVars, aisVars, bitVars, tenbitVars, pskVars,
                   genVars, encVars, xfVars, txVars, noiseVars, sc8Vars, gaussVars, mmsiVars, procVars, page121Vars>>

VhfBuildDscBits ==
    /\ vhf_primary_symbols.status = "ok"
    /\ vhf_dsc_bits.status = "none"
    /\ vhf_dsc_bits' = vhf_build_dsc_bits(vhf_primary_symbols.value,
                                          dsc_cfg.eos_symbol)
    /\ UNCHANGED <<vhf_primary_symbols, dscVars, aisVars, bitVars, tenbitVars,
                   pskVars, genVars, encVars, xfVars, txVars, noiseVars, sc8Vars,
                   gaussVars, mmsiVars, procVars, page121Vars>>

NextDscVhf == NextDsc \/ VhfBuildPrimary \/ VhfBuildDscBits

SpecDscVhf == InitDsc /\ [][NextDscVhf]_vars

(***************************************************************************)
(* PSK-406: one profile through either entry point.  The CLI and the       *)
(* dispatcher reach build_psk406; the 406 page calls generate_psk406.      *)
(***************************************************************************)
BuildPsk406 ==
    /\ psk_sig.status = "none"
    /\ psk_sig' = build_psk406(psk_profile)
    /\ UNCHANGED <<psk_profile, aisVars, bitVars, tenbitVars, dscVars, genVars,
                 encVars,
                 xfVars, txVars, noiseVars, sc8Vars, gaussVars, vhfVars, mmsiVars, procVars, page121Vars>>

GeneratePsk406 ==
    /\ psk_sig.status = "none"
    /\ \E noise_peak \in NoisePeaks :
          psk_sig' = generate_psk406(psk_profile, noise_peak)
    /\ UNCHANGED <<psk_profile, aisVars, bitVars, tenbitVars, dscVars, genVars,
                 encVars,
                 xfVars, txVars, noiseVars, sc8Vars, gaussVars, vhfVars, mmsiVars, procVars, page121Vars>>

InitPsk ==
    /\ psk_profile \in PskProfiles
    /\ psk_sig = NoResult
    /\ AisIdle /\ BitsIdle /\ TenbitIdle /\ DscIdle /\ GenIdle /\ EncIdle /\ XfIdle
    /\ TxIdle
    /\ NoiseIdle
    /\ Sc8Idle
    /\ GaussIdle
    /\ VhfIdle
    /\ MmsiIdle
    /\ ProcIdle
    /\ Page121Idle

NextPsk == BuildPsk406 \/ GeneratePsk406

SpecPsk == InitPsk /\ [][NextPsk]_vars

(***************************************************************************)
(* The generic path: build_iq on a profile whose standard has no encoder   *)
(* of its own.                                                             *)
(***************************************************************************)
GenericIq ==
    /\ iq.status = "none"
    /\ iq' = GenericPath(gen_profile)
    /\ UNCHANGED <<gen_profile, aisVars, bitVars, tenbitVars, dscVars, pskVars,
                 encVars,
                 xfVars, txVars, noiseVars, sc8Vars, gaussVars, vhfVars, mmsiVars, procVars, page121Vars>>

InitGen ==
    /\ gen_profile \in GenProfiles
    /\ iq = NoResult
    /\ AisIdle /\ BitsIdle /\ TenbitIdle /\ DscIdle /\ PskIdle /\ EncIdle /\ XfIdle
    /\ TxIdle
    /\ NoiseIdle
    /\ Sc8Idle
    /\ GaussIdle
    /\ VhfIdle
    /\ MmsiIdle
    /\ ProcIdle
    /\ Page121Idle

NextGen == GenericIq

SpecGen == InitGen /\ [][NextGen]_vars

(***************************************************************************)
(* The encoders as their callers reach them: build_iq from the command     *)
(* line and the generic pages, build_dsc_vhf, build_dsc_hf and             *)
(* build_navtex from the page of their standard.                           *)
(***************************************************************************)
BuildIq ==
    /\ enc_out.called = "none"
    /\ \E noise_peak \in NoisePeaks :
          enc_out' = build_iq(enc_profile, noise_peak)
    /\ UNCHANGED <<enc_profile, aisVars, bitVars, tenbitVars, dscVars, pskVars,
                 genVars,
                 xfVars, txVars, noiseVars, sc8Vars, gaussVars, vhfVars, mmsiVars, procVars, page121Vars>>

BuildDscVhf ==
    /\ enc_out.called = "none"
    /\ enc_profile.standard = "dsc_vhf"
    /\ \E noise_peak \in NoisePeaks :
          enc_out' = Called("build_dsc_vhf", "build_dsc_vhf",
                            build_dsc_vhf(enc_profile, noise_peak))
    /\ UNCHANGED <<enc_profile, aisVars, bitVars, tenbitVars, dscVars, pskVars,
                 genVars,
                 xfVars, txVars, noiseVars, sc8Vars, gaussVars, vhfVars, mmsiVars, procVars, page121Vars>>

BuildDscHf ==
    /\ enc_out.called = "none"
    /\ enc_profile.standard = "dsc_hf"
    /\ \E noise_peak \in NoisePeaks :
          enc_out' = Called("build_dsc_hf", "build_dsc_hf",
                            build_dsc_hf(enc_profile, noise_peak))
    /\ UNCHANGED <<enc_profile, aisVars, bitVars, tenbitVars, dscVars, pskVars,
                 genVars,
                 xfVars, txVars, noiseVars, sc8Vars, gaussVars, vhfVars, mmsiVars, procVars, page121Vars>>

BuildNavtex ==
    /\ enc_out.called = "none"
    /\ enc_profile.standard = "navtex"
    /\ \E noise_peak \in NoisePeaks :
          enc_out' = Called("build_navtex", "build_navtex",
                            build_navtex(enc_profile, noise_peak))
    /\ UNCHANGED <<enc_profile, aisVars, bitVars, tenbitVars, dscVars, pskVars,
                 genVars,
                 xfVars, txVars, noiseVars, sc8Vars, gaussVars, vhfVars, mmsiVars, procVars, page121Vars>>

InitEnc ==
    /\ enc_profile \in EncProfiles
    /\ enc_out = NoCall
    /\ AisIdle /\ BitsIdle /\ TenbitIdle /\ DscIdle /\ PskIdle /\ GenIdle /\ XfIdle
    /\ TxIdle
    /\ NoiseIdle
    /\ Sc8Idle
    /\ GaussIdle
    /\ VhfIdle
    /\ MmsiIdle
    /\ ProcIdle
    /\ Page121Idle

NextEnc == BuildIq \/ BuildDscVhf \/ BuildDscHf \/ BuildNavtex

SpecEnc == InitEnc /\ [][NextEnc]_vars

(***************************************************************************)
(* The transformation stages, each applied once to an array that exists.   *)
(***************************************************************************)
ApplyDigitalShift ==
    /\ xf_call.stage = "none"
    /\ \E fs \in ShiftRates, shift_hz \in ShiftsHz :
          LET res == _apply_digital_shift(xf_heap, 1, shift_hz, fs)
          IN  /\ xf_heap' = res.heap
              /\ xf_call' = StageCall("_apply_digital_shift", 1, xf_heap[1],
                                      [shift_hz |-> shift_hz, fs |-> fs], res)
    /\ UNCHANGED <<aisVars, bitVars, tenbitVars, dscVars, pskVars, genVars,
                 encVars, txVars, noiseVars, sc8Vars, gaussVars, vhfVars, mmsiVars, procVars, page121Vars>>

Resample ==
    /\ xf_call.stage = "none"
    /\ \E fs_in \in XfRates, fs_out \in XfRates :
          \E N_out \in OutLengths(Len(xf_heap[1]), fs_in, fs_out) :
              LET res == resample(xf_heap, 1, fs_in, fs_out, N_out)
              IN  /\ xf_heap' = res.heap
                  /\ xf_call' = StageCall("resample", 1, xf_heap[1],
                                          [fs_in |-> fs_in, fs_out |-> fs_out,
                                           N_out |-> N_out], res)
    /\ UNCHANGED <<aisVars, bitVars, tenbitVars, dscVars, pskVars, genVars,
                 encVars, txVars, noiseVars, sc8Vars, gaussVars, vhfVars, mmsiVars, procVars, page121Vars>>

ClipNorm ==
    /\ xf_call.stage = "none"
    /\ \E peak \in ClipPeaks :
          LET res == _clip_norm_iq(xf_heap, 1, peak)
          IN  /\ xf_heap' = res.heap
              /\ xf_call' = StageCall("_clip_norm", 1, xf_heap[1],
                                      [peak |-> peak], res)
    /\ UNCHANGED <<aisVars, bitVars, tenbitVars, dscVars, pskVars, genVars,
                 encVars, txVars, noiseVars, sc8Vars, gaussVars, vhfVars, mmsiVars, procVars, page121Vars>>

InitXf ==
    /\ xf_heap \in {<<x>> : x \in XfBuffers}
    /\ xf_call = NoStage
    /\ AisIdle /\ BitsIdle /\ TenbitIdle /\ DscIdle /\ PskIdle /\ GenIdle /\ EncIdle
    /\ TxIdle
    /\ NoiseIdle
    /\ Sc8Idle
    /\ GaussIdle
    /\ VhfIdle
    /\ MmsiIdle
    /\ ProcIdle
    /\ Page121Idle

NextXf == ApplyDigitalShift \/ Resample \/ ClipNorm

SpecXf == InitXf /\ [][NextXf]_vars

(***************************************************************************)
(* The backend: run_loop calls on one HackRFTx instance, and the transfer  *)
(* process ending on its own (a "once" run reaching the end of its file,   *)
(* the device going away).                                                 *)
(***************************************************************************)
RunLoop ==
    /\ transfers.started < MaxPid
    /\ \E req \in TxRequests, spawned \in BOOLEAN :
          LET new_pid == transfers.started + 1
              res     == run_loop(hackrf, req, spawned, new_pid)
          IN  /\ hackrf' = res.self
              /\ tx_call' = res.out
              /\ transfers' = IF res.out.status = "ok"
                              THEN [started |-> new_pid,
                                    alive   |-> transfers.alive \cup {new_pid}]
                              ELSE transfers
    /\ UNCHANGED <<aisVars, bitVars, tenbitVars, dscVars, pskVars, genVars,
                 encVars, xfVars, noiseVars, sc8Vars, gaussVars, vhfVars, mmsiVars, page121Vars>>

\* a transfer process ends on its own; poll() on its handle then returns
ProcessExits ==
    /\ \E p \in transfers.alive :
          /\ transfers' = [transfers EXCEPT !.alive = @ \ {p}]
          /\ hackrf' = IF hackrf.proc = "running" /\ hackrf.pid = p
                       THEN [hackrf EXCEPT !.proc = "exited"]
                       ELSE hackrf
    /\ UNCHANGED <<tx_call, aisVars, bitVars, tenbitVars, dscVars, pskVars,
                   genVars, encVars, xfVars, noiseVars, sc8Vars, gaussVars, vhfVars,
                   mmsiVars, page121Vars>>

\* stop(); terminate and kill may or may not end a running process
Stop ==
    /\ \E ended \in BOOLEAN :
          /\ hackrf' = stop(hackrf)
          /\ transfers' = IF hackrf.proc = "running" /\ ended
                          THEN [transfers EXCEPT !.alive = @ \ {hackrf.pid}]
                          ELSE transfers
    /\ UNCHANGED <<tx_call, aisVars, bitVars, tenbitVars, dscVars, pskVars,
                   genVars, encVars, xfVars, noiseVars, sc8Vars, gaussVars, vhfVars,
                   mmsiVars, page121Vars>>

InitTx ==
    /\ hackrf = NewHackRFTx
    /\ tx_call = NoTx
    /\ AisIdle /\ BitsIdle /\ TenbitIdle /\ DscIdle /\ PskIdle /\ GenIdle /\ EncIdle
    /\ XfIdle
    /\ NoiseIdle
    /\ Sc8Idle
    /\ GaussIdle
    /\ VhfIdle
    /\ MmsiIdle
    /\ ProcIdle
    /\ Page121Idle

NextTx == RunLoop \/ ProcessExits \/ Stop

SpecTx == InitTx /\ [][NextTx]_vars

(***************************************************************************)
(* Synthesis calls made one after another in one process.                  *)
(***************************************************************************)
SynthesisCall ==
    /\ Len(synth_calls) < MaxCalls
    /\ \E cfg \in NoiseConfigs :
          LET r == NoiseOfCall(cfg, last_rng)
          IN  /\ synth_calls' = Append(synth_calls,
                                       [cfg |-> cfg, pre |-> r.pre, post |-> r.post])
              /\ last_rng' = r.gen
    /\ UNCHANGED <<aisVars, bitVars, tenbitVars, dscVars, pskVars, genVars,
                   encVars, xfVars, txVars, sc8Vars, gaussVars, vhfVars, mmsiVars, procVars, page121Vars>>

InitNoise ==
    /\ synth_calls = <<>>
    /\ last_rng = NoGenerator
    /\ AisIdle /\ BitsIdle /\ TenbitIdle /\ DscIdle /\ PskIdle /\ GenIdle /\ EncIdle
    /\ XfIdle /\ TxIdle
    /\ Sc8Idle
    /\ GaussIdle
    /\ VhfIdle
    /\ MmsiIdle
    /\ ProcIdle
    /\ Page121Idle

NextNoise == SynthesisCall

SpecNoise == InitNoise /\ [][NextNoise]_vars

(***************************************************************************)
(* Writing a buffer as an sc8 file.                                        *)
(***************************************************************************)
SaveSc8 ==
    /\ sc8_file.status = "none"
    /\ sc8_file' = [status |-> "ok", value |-> save_sc8(sc8_iq)]
    /\ UNCHANGED <<sc8_iq, aisVars, bitVars, tenbitVars, dscVars, pskVars, genVars,
                   encVars, xfVars, txVars, noiseVars, gaussVars, vhfVars, mmsiVars, procVars, page121Vars>>

InitSc8 ==
    /\ sc8_iq \in Sc8Buffers
    /\ sc8_file = NoResult
    /\ AisIdle /\ BitsIdle /\ TenbitIdle /\ DscIdle /\ PskIdle /\ GenIdle /\ EncIdle
    /\ XfIdle /\ TxIdle /\ NoiseIdle
    /\ GaussIdle
    /\ VhfIdle
    /\ MmsiIdle
    /\ ProcIdle
    /\ Page121Idle

NextSc8 == SaveSc8

SpecSc8 == InitSc8 /\ [][NextSc8]_vars

(***************************************************************************)
(* Designing the Gaussian kernel.                                          *)
(***************************************************************************)
GaussianFilter ==
    /\ gauss_taps.status = "none"
    /\ gauss_taps' = [status |-> "ok",
                      value  |-> _gaussian_filter_ais(gauss_args.sps,
                                                      gauss_args.span_symbols)]
    /\ UNCHANGED <<gauss_args, aisVars, bitVars, tenbitVars, dscVars, pskVars,
                   genVars, encVars, xfVars, txVars, noiseVars, sc8Vars, vhfVars, mmsiVars, procVars, page121Vars>>

InitGauss ==
    /\ gauss_args \in GaussArgs
    /\ gauss_taps = NoResult
    /\ AisIdle /\ BitsIdle /\ TenbitIdle /\ DscIdle /\ PskIdle /\ GenIdle /\ EncIdle
    /\ XfIdle /\ TxIdle /\ NoiseIdle /\ Sc8Idle
    /\ VhfIdle
    /\ MmsiIdle
    /\ ProcIdle
    /\ Page121Idle

NextGauss == GaussianFilter

SpecGauss == InitGauss /\ [][NextGauss]_vars

(***************************************************************************)
(* Bit stuffing on its own and within build_ais, taken together.           *)
(***************************************************************************)
InitStuff == InitBits \/ InitAis

NextStuff == NextBits \/ NextAis

SpecStuff == InitStuff /\ [][NextStuff]_vars

(***************************************************************************)
(* Splitting an MMSI string into symbols.                                  *)
(***************************************************************************)
MmsiSymbols ==
    /\ mmsi_out.status = "none"
    /\ mmsi_out' = MmsiToSymbols(mmsi_text)
    /\ UNCHANGED <<mmsi_text, aisVars, bitVars, tenbitVars, dscVars, pskVars,
                   genVars, encVars, xfVars, txVars, noiseVars, sc8Vars, gaussVars,
                   vhfVars, procVars, page121Vars>>

InitMmsi ==
    /\ mmsi_text \in MmsiTexts
    /\ mmsi_out = NoResult
    /\ AisIdle /\ BitsIdle /\ TenbitIdle /\ DscIdle /\ PskIdle /\ GenIdle /\ EncIdle
    /\ XfIdle /\ TxIdle /\ NoiseIdle /\ Sc8Idle /\ GaussIdle /\ VhfIdle
    /\ ProcIdle
    /\ Page121Idle

NextMmsi == MmsiSymbols

SpecMmsi == InitMmsi /\ [][NextMmsi]_vars

(***************************************************************************)
(* The 121.5 MHz page: Start with the HackRF backend selected.             *)
(***************************************************************************)
StartHackrf121 ==
    /\ p121_iq = NoCall
    /\ \E spawned \in BOOLEAN :
          LET new_pid == transfers.started + 1
              res     == _start_hackrf(p121_prof, spawned, new_pid)
          IN  /\ p121_iq' = res.iq
              /\ hackrf' = res.tx.self
              /\ tx_call' = res.tx.out
              /\ transfers' = IF res.tx.out.status = "ok"
                              THEN [started |-> new_pid,
                                    alive   |-> transfers.alive \cup {new_pid}]
                              ELSE transfers
    /\ UNCHANGED <<p121_prof, aisVars, bitVars, tenbitVars, dscVars, pskVars,
                   genVars, encVars, xfVars, noiseVars, sc8Vars, gaussVars, vhfVars,
                   mmsiVars>>

InitPage121 ==
    /\ p121_prof \in Page121Profiles
    /\ p121_iq = NoCall
    /\ AisIdle /\ BitsIdle /\ TenbitIdle /\ DscIdle /\ PskIdle /\ GenIdle /\ EncIdle
    /\ XfIdle /\ TxIdle /\ NoiseIdle /\ Sc8Idle /\ GaussIdle /\ VhfIdle /\ MmsiIdle
    /\ ProcIdle

NextPage121 == StartHackrf121

SpecPage121 == InitPage121 /\ [][NextPage121]_vars

(***************************************************************************)
(* Receiver-side inverses and counts used to state the properties.         *)
(***************************************************************************)
\* delete each 0 that immediately follows exactly five consecutive 1s
DestuffStep(st, bit) ==
    IF bit = 1 THEN [run |-> st.run + 1, out |-> Append(st.out, 1)]
    ELSE IF st.run = 5 THEN [run |-> 0, out |-> st.out]
    ELSE [run |-> 0, out |-> Append(st.out, bit)]

Destuff(s) == ForEach(DestuffStep, s, [run |-> 0, out |-> <<>>]).out

\* a changed level decodes to 0, an unchanged level to 1
NrziDecode(levels, init) ==
    [i \in 1..Len(levels) |->
        IF levels[i] # (IF i = 1 THEN init ELSE levels[i - 1]) THEN 0 ELSE 1]

\* one per five consecutive 1s, over the maximal runs of 1s of bs
RunFivesStep(st, bit) ==
    IF bit = 1 THEN [run |-> st.run + 1, fives |-> st.fives]
    ELSE [run |-> 0, fives |-> st.fives + (st.run \div 5)]

RunFives(bs) ==
    LET st == ForEach(RunFivesStep, bs, [run |-> 0, fives |-> 0])
    IN  st.fives + (st.run \div 5)

\* bit j (from 1) of a byte string sent least-significant bit first
LsbFirstBits(bytes) ==
    [j \in 1..(8 * Len(bytes)) |->
        IF (bytes[((j - 1) \div 8) + 1] % Pow2(((j - 1) % 8) + 1)) >= Pow2((j - 1) % 8)
        THEN 1 ELSE 0]

\* bytes packed from bits received least-significant bit first
PackLsbFirst(bs) ==
    [k \in 1..(Len(bs) \div 8) |->
        LET o == 8 * (k - 1)
        IN  bs[o + 1] + (2 * bs[o + 2]) + (4 * bs[o + 3]) + (8 * bs[o + 4])
            + (16 * bs[o + 5]) + (32 * bs[o + 6]) + (64 * bs[o + 7])
            + (128 * bs[o + 8])]

(***************************************************************************)
(* Properties of the AIS chain.                                            *)
(***************************************************************************)
\* C1: the CRC register run over the payload followed by its FCS, low byte
\* first, as build_ais puts them on the air, ends at the residue 0xF0B8
\* before the final XOR (the function returns 0x0F47), whatever the payload.
C1_CrcResidue ==
    ais.status = "ok" =>
        LET codeword == PackLsbFirst(ais.bits_payload_fcs)
        IN  /\ codeword = ais.payload_bytes \o <<ais.fcs % 256, ais.fcs \div 256>>
            /\ CrcRegister(CrcInit, codeword) = 61624
            /\ _crc16_x25_ais(codeword) = 3911

C1_Witness ==
    /\ ais.status = "ok"
    /\ Len(ais.payload_bytes) >= 2
    /\ ais.fcs % 256 # ais.fcs \div 256

\* C2: de-stuffing the output of _bit_stuff_ais gives back the input bits.
C2_StuffRoundTrip ==
    bits_stuffed.status = "ok" => Destuff(bits_stuffed.value) = bits

C2_Witness ==
    /\ bits_stuffed.status = "ok"
    /\ Len(bits_stuffed.value) >= Len(bits) + 2
    /\ \E i \in 1..Len(bits) : bits[i] = 0

\* C3: NRZI-decoding the levels of _nrzi_encode_ais, starting from the
\* encoder's initial level, gives back the input bits.
C3_NrziRoundTrip ==
    nrzi_symbols.status = "ok" =>
        NrziDecode(nrzi_symbols.value, NrziInitLevel) = bits

C3_Witness ==
    /\ nrzi_symbols.status = "ok"
    /\ Len(bits) >= 4
    /\ \E i, j \in 1..Len(bits) : bits[i] = 0 /\ bits[j] = 1

\* C4: the frame is preamble, start flag, the stuffed LSB-first bits of
\* payload+CRC (low byte first), stop flag, 24 guard zeros; its length is
\* 64 + 8*(n+2) + s with s one per five consecutive 1s of the unstuffed
\* payload+CRC; preamble and flags are not stuffed.
C4_FrameLayout ==
    ais.status = "ok" =>
        LET n     == Len(hex_payload(profile)) \div 2
            f     == ais.frame_bits
            L     == Len(f)
            plain == LsbFirstBits(ais.payload_bytes
                                  \o <<ais.fcs % 256, ais.fcs \div 256>>)
            s     == RunFives(plain)
        IN  /\ n = Len(ais.payload_bytes)
            /\ n >= 1
            /\ L = 24 + 16 + 24 + (8 * (n + 2)) + s
            /\ SubSeq(f, 1, 24) = <<0, 1, 0, 1, 0, 1, 0, 1, 0, 1, 0, 1,
                                    0, 1, 0, 1, 0, 1, 0, 1, 0, 1, 0, 1>>
            /\ SubSeq(f, 25, 32) = <<0, 1, 1, 1, 1, 1, 1, 0>>
            /\ SubSeq(f, 33, L - 32) = ais.bits_stuffed
            /\ Destuff(SubSeq(f, 33, L - 32)) = plain
            /\ SubSeq(f, L - 31, L - 24) = <<0, 1, 1, 1, 1, 1, 1, 0>>
            /\ \A i \in (L - 23)..L : f[i] = 0

C4_Witness ==
    /\ ais.status = "ok"
    /\ Len(ais.payload_bytes) >= 2
    /\ Len(ais.bits_stuffed) >= Len(ais.bits_payload_fcs) + 2

(***************************************************************************)
(* Properties of the DSC framing.                                          *)
(***************************************************************************)
\* the number of 1 bits of a natural number
RECURSIVE PopCount(_)
PopCount(n) == IF n = 0 THEN 0 ELSE (n % 2) + PopCount(n \div 2)

\* the value of a bit array read most-significant bit first
BitsValue(bs) ==
    ForEach(LAMBDA acc, bit : (2 * acc) + bit, bs, 0)

\* C5: the ten-bit character of every symbol s in 0..127 is the 7 info bits
\* of s, MSB first, then 3 check bits, MSB first, with
\* (1s among the info bits) + (value of the check bits) = 7.
C5_TenbitCheck ==
    (tenbit.status # "none" /\ ValidSymbol(sym)) =>
        /\ tenbit.status = "ok"
        /\ Len(tenbit.value) = 10
        /\ \A i \in 1..10 : tenbit.value[i] \in {0, 1}
        /\ BitsValue(SubSeq(tenbit.value, 1, 7)) = sym
        /\ Cardinality({i \in 1..7 : tenbit.value[i] = 1})
             + BitsValue(SubSeq(tenbit.value, 8, 10)) = 7

C5_Witness ==
    /\ tenbit.status = "ok"
    /\ sym = 127
    /\ tenbit.value = <<1, 1, 1, 1, 1, 1, 1, 0, 0, 0>>

\* the ten-bit form of symbol s, by value: s in the high 7 bits, the count of
\* its zero bits in the low 3
TenbitForm(s) ==
    LET v == (8 * s) + (7 - PopCount(s))
    IN  [k \in 1..10 |-> (v \div Pow2(10 - k)) % 2]

\* the symbols a frame carries for the primary list ps and end symbol eos
FrameSymbols(ps, eos) ==
    [i \in 1..(139 + (Len(ps) - 1)) |->
        IF i <= 120 THEN 126
        ELSE IF i <= 136 THEN 111 - ((i - 121) % 8)
        ELSE IF i <= 138 THEN ps[1]
        ELSE IF i <= 137 + Len(ps) THEN ps[i - 137]
        ELSE eos]

AllValid(ps) == \A i \in 1..Len(ps) : ValidSymbol(ps[i])

\* C6: for a primary list [FS, p1..pk] of symbols in 0..127 the bitstream is
\* the ten-bit forms of 120 x 126, (111..104) twice, FS, FS, p1..pk and the
\* end-of-sequence symbol, 10*(139+k) bits in all.
C6_DscFrame ==
    (dsc_bits.status # "none" /\ primary_symbols.value # <<>>
        /\ AllValid(primary_symbols.value) /\ ValidSymbol(dsc_cfg.eos_symbol)) =>
        LET ps   == primary_symbols.value
            k    == Len(ps) - 1
            syms == FrameSymbols(ps, dsc_cfg.eos_symbol)
        IN  /\ dsc_bits.status = "ok"
            /\ Len(dsc_bits.value) = 10 * (139 + k)
            /\ \A c \in 1..(139 + k) :
                   SubSeq(dsc_bits.value, (10 * (c - 1)) + 1, 10 * c)
                       = TenbitForm(syms[c])

C6_Witness ==
    /\ dsc_bits.status = "ok"
    /\ dsc_cfg.eos_symbol = 127
    /\ Len(primary_symbols.value) = 3
    /\ primary_symbols.value[1] # primary_symbols.value[2]
    /\ Len(dsc_bits.value) = 1410

\* the two-digit groups of the last ten digits of a digit string, zeros
\* supplied on the left when it has fewer than ten
MmsiGroups(text) ==
    LET d      == SelectSeq(text, IsDecimal)
        padded == IF Len(d) < 10 THEN Repeat("0", 10 - Len(d)) \o d ELSE d
        last10 == SubSeq(padded, Len(padded) - 9, Len(padded))
    IN  [i \in 1..5 |-> (10 * DigitVal(last10[(2 * i) - 1])) + DigitVal(last10[2 * i])]

C8_Psk406Length ==
    (psk_sig.status = "ok" /\ psk_profile = DefaultPskProfile) =>
        /\ Len(psk_sig.bits) = 18 * 8
        /\ psk_sig.n = psk_sig.pre_N + psk_sig.carr_N
                       + (18 * 8 * Round(1000000, PskBitRate)) + psk_sig.post_N

C8_Witness ==
    /\ psk_sig.status = "ok"
    /\ psk_profile = DefaultPskProfile
    /\ psk_sig.entry = "build_psk406"
    /\ psk_sig.carr_N = 160000
    /\ psk_sig.n = 8545000

\* C8 as the specification words it: the message part counted as 37 bytes
C8_Original ==
    (psk_sig.status = "ok" /\ psk_profile = DefaultPskProfile) =>
        psk_sig.n = psk_sig.pre_N + psk_sig.carr_N
                    + (37 * 8 * Round(1000000, PskBitRate)) + psk_sig.post_N

\* C9: every sample of the buffer the generic path returns has magnitude at
\* most 0.8, for modulation None, AM with depth in 0..1, FM or PM and any
\* pattern.
C9_GenericPeak ==
    iq.status = "ok" =>
        \A j \in 1..Len(iq.samples) : iq.samples[j].mag <= GenericScale

\* C10: the buffer of the 406 MHz encoder has peak magnitude at most 0.95,
\* whichever entry point produced it.
C10_Psk406Peak ==
    psk_sig.status = "ok" => psk_sig.peak <= PeakCore

(***************************************************************************)
(* Encoders and dispatcher.                                                *)
(***************************************************************************)
\* the symbol or bit rate the encoder that ran works at
RateOf(prof, encoder) ==
    CASE encoder = "build_ais"     -> 9600
      [] encoder = "build_psk406"  -> 400
      [] encoder = "build_navtex"  -> 100
      [] OTHER                     -> prof.symbol_rate

RateEncoders ==
    {"build_ais", "build_psk406", "build_dsc_vhf", "build_dsc_hf", "build_navtex"}

\* round(fs / rate), halves to even, written without the model's Round
RoundedRatio(fs, rate) ==
    CHOOSE q \in 0..((fs \div rate) + 1) :
        /\ 2 * Abs((q * rate) - fs) <= rate
        /\ (2 * Abs((q * rate) - fs) = rate => q % 2 = 0)

C12_FailFast ==
    (enc_out.called # "none" /\ enc_out.out.status = "error") =>
        enc_out.out.allocated = <<>>

\* the encoder of each standard the profile validation accepts
EncoderOf(standard) ==
    CASE standard = "ais"                -> "build_ais"
      [] standard \in {"c406", "psk406"} -> "build_psk406"
      [] standard = "dsc_vhf"            -> "build_dsc_vhf"
      [] standard = "dsc_hf"             -> "build_dsc_hf"
      [] standard = "navtex"             -> "build_navtex"
      [] standard = "121"                -> "generate_121p5"
      [] OTHER                           -> "generic"

\* C14: build_iq runs the encoder of the profile's standard, and the generic
\* pattern and modulation path only for the generic standard.
C14_Dispatch ==
    enc_out.entry = "build_iq" =>
        enc_out.called = EncoderOf(enc_profile.standard)

\* the framed ten-bit bitstream of the call fields, padded to whole bytes
VhfFramedBits(prof) ==
    PadToByte(build_dsc_bits(build_primary_symbols_from_cfg(VhfCfg(prof)),
                             prof.eos_symbol).value)

\* C15: in builder input mode, build_dsc_vhf modulates the framed bitstream
\* assembled from the call fields, not the stored hex_message.
C15_VhfBuilderBits ==
    (/\ enc_out.entry = "build_dsc_vhf"
     /\ enc_profile.input_mode = "builder"
     /\ enc_out.out.status = "ok") =>
        enc_out.out.bits = VhfFramedBits(enc_profile)

(***************************************************************************)
(* PSK-406: ramp length and trailing silence.                              *)
(***************************************************************************)
\* the half-bit length in samples: round(fs / 400) // 2
HalfBit(fs) == RoundedRatio(fs, 400) \div 2

PskHexAccepted(h) == Len(HexClean(h)) % 2 = 0 /\ ValidHex(HexClean(h))

\* C13 (as amended): either entry point accepts front_samples exactly when
\* it is less than half of the half-bit length, (bit_samples // 2) // 2, and
\* raises an error for every larger ramp length.
C13_FrontLimit ==
    psk_sig.status # "none" =>
        LET half == HalfBit(psk_profile.fs_tx)
        IN  /\ psk_sig.status = "ok" => psk_profile.front_samples < half \div 2
            /\ psk_profile.front_samples >= half \div 2 => psk_sig.status = "error"
            /\ (/\ psk_profile.front_samples < half \div 2
                /\ RoundedRatio(psk_profile.fs_tx, 400) >= 10
                /\ PskHexAccepted(psk_profile.hex_message)) => psk_sig.status = "ok"

C13_Witness ==
    /\ psk_sig.status = "ok"
    /\ psk_profile.fs_tx = 1000000
    /\ psk_profile.front_samples = 400
    /\ psk_sig.bit_samples = 2500
    /\ psk_sig.entry = "generate_psk406"

\* C13 as the specification words it: an accepted ramp is shorter than one
\* quarter of the half-bit length
C13_Original ==
    psk_sig.status = "ok" =>
        4 * psk_profile.front_samples < HalfBit(psk_profile.fs_tx)

\* round(ms * fs / 1000), halves to even
RoundedMs(ms, fs) ==
    LET whole == (ms * fs) \div 1000
        rest  == (ms * fs) % 1000
    IN  IF 2 * rest < 1000 THEN whole
        ELSE IF 2 * rest > 1000 THEN whole + 1
        ELSE whole + (whole % 2)

\* C20: the buffer build_psk406 returns ends, in loop mode, with
\* round(gap_s * fs) samples of silence (the inter-frame gap, in place of the
\* post-silence) and, in repeat mode, with round(post_silence_ms * fs / 1000)
\* samples of silence and no gap samples.
C20_TrailingSilence ==
    (psk_sig.status = "ok" /\ psk_sig.entry = "build_psk406") =>
        LET fs   == psk_profile.fs_tx
            tail == IF psk_profile.mode = "loop"
                    THEN psk_profile.gap_s * fs
                    ELSE RoundedMs(psk_profile.post_silence_ms, fs)
        IN  /\ psk_sig.post_N = tail
            /\ psk_sig.n = psk_sig.pre_N + psk_sig.carr_N
                           + (Len(psk_sig.bits) * psk_sig.bit_samples) + tail

C20_Witness ==
    /\ psk_sig.status = "ok"
    /\ psk_sig.entry = "build_psk406"
    /\ psk_profile.mode = "loop"
    /\ psk_profile.gap_s = 8
    /\ psk_profile.fs_tx = 48000
    /\ psk_profile.post_silence_ms = DefaultSilenceMs
    /\ psk_sig.post_N = 384000

(***************************************************************************)
(* Backend and transformation stages.                                      *)
(***************************************************************************)
\* C16: for every run_loop call that starts a transfer, the frequency given
\* to hackrf_transfer plus the digital shift the transmitted samples went
\* through equals target_hz, for cf32 and for sc8 sample files.
C16_RfEqualsTarget ==
    tx_call.status = "ok" =>
        tx_call.center_hz + tx_call.shift_applied = tx_call.req.target_hz

\* C17: every stage returns an array that is not the object it was handed,
\* whatever the parameters, and leaves the samples of its input as they were.
C17_NoAliasing ==
    xf_call.status = "ok" =>
        /\ xf_call.ret # xf_call.arg
        /\ xf_heap[xf_call.arg] = xf_call.before

\* the lengths "round(N * fs_out / fs_in)" can stand for: the nearest whole
\* number, and both neighbours of an exact half
NearestLengths(N, fs_in, fs_out) ==
    {q \in 0..(((N * fs_out) \div fs_in) + 1) :
        2 * Abs((q * fs_in) - (N * fs_out)) <= fs_in}

\* a result the resampler defines as degenerate: empty for an empty input or
\* a computed length of 0, one sample for a computed length of 1
Degenerate(out, N, fs_in, fs_out) ==
    \/ Len(out) = 0 /\ (N = 0 \/ 0 \in NearestLengths(N, fs_in, fs_out))
    \/ Len(out) = 1 /\ 1 \in NearestLengths(N, fs_in, fs_out)

\* C18 (as amended): resample fails for non-positive rates; with equal rates
\* it returns a copy of its input whatever its length; with different rates
\* it returns at least 8 samples or a degenerate result, and fails whenever
\* the computed length is 2 to 7.
C18_ResampleMinimum ==
    xf_call.stage = "resample" =>
        LET N      == Len(xf_call.before)
            fs_in  == xf_call.params.fs_in
            fs_out == xf_call.params.fs_out
        IN  IF fs_in <= 0 \/ fs_out <= 0 THEN xf_call.status = "error"
            ELSE IF fs_in = fs_out
            THEN xf_call.status = "ok" /\ xf_heap[xf_call.ret] = xf_call.before
            ELSE /\ xf_call.status = "ok" =>
                        \/ Len(xf_heap[xf_call.ret]) >= 8
                        \/ Degenerate(xf_heap[xf_call.ret], N, fs_in, fs_out)
                 /\ (N > 0 /\ NearestLengths(N, fs_in, fs_out) \subseteq 2..7) =>
                        xf_call.status = "error"

C18_Witness ==
    /\ xf_call.stage = "resample"
    /\ xf_call.params.fs_in = 8000
    /\ xf_call.params.fs_out = 8000
    /\ xf_call.before = Ramp(3)
    /\ xf_call.status = "ok"
    /\ xf_heap[xf_call.ret] = Ramp(3)

\* C18 as the specification words it: a returned buffer of fewer than 8
\* samples is one of the degenerate results
C18_Original ==
    (xf_call.stage = "resample" /\ xf_call.status = "ok"
        /\ Len(xf_heap[xf_call.ret]) < 8) =>
            /\ xf_call.params.fs_in > 0
            /\ xf_call.params.fs_out > 0
            /\ Degenerate(xf_heap[xf_call.ret], Len(xf_call.before),
                          xf_call.params.fs_in, xf_call.params.fs_out)

\* C19: with equal rates resample returns its input sample for sample; with
\* different rates and a non-empty input the returned length is within one
\* sample of round(N * fs_out / fs_in).
C19_ResampleLength ==
    (xf_call.stage = "resample" /\ xf_call.status = "ok") =>
        LET N      == Len(xf_call.before)
            fs_in  == xf_call.params.fs_in
            fs_out == xf_call.params.fs_out
            out    == xf_heap[xf_call.ret]
        IN  /\ fs_in = fs_out => out = xf_call.before
            /\ (fs_in # fs_out /\ N > 0) =>
                   Abs(Len(out) - RoundedRatio(N * fs_out, fs_in)) <= 1

C19_Witness ==
    /\ xf_call.stage = "resample"
    /\ xf_call.status = "ok"
    /\ xf_call.before = Ramp(9)
    /\ xf_call.params.fs_in = 2000
    /\ xf_call.params.fs_out = 3000
    /\ Len(xf_heap[xf_call.ret]) = 13
    /\ RoundedRatio(9 * 3000, 2000) = 14

\* the target phase of the segment before segment k (0 before the first)
TargetBefore(segs, k) == IF k = 1 THEN 0 ELSE segs[k - 1].to

\* C21: every message bit takes round(fs / 400) samples, split into a first
\* segment of floor(bit_samples / 2) samples and a second of the rest; the
\* targets are (low, high) for a 0 and (high, low) for a 1; the ramp of each
\* segment starts from the target of the segment before it (0 before the
\* first bit) and is followed by a steady part at the segment's own target.
C21_HalfBitSegments ==
    psk_sig.status = "ok" =>
        LET bit  == RoundedRatio(psk_profile.fs_tx, 400)
            segs == psk_sig.segments
            low  == psk_profile.phase_low
            high == psk_profile.phase_high
        IN  /\ Len(segs) = 2 * Len(psk_sig.bits)
            /\ \A i \in 1..Len(psk_sig.bits) :
                  /\ segs[(2 * i) - 1].n = bit \div 2
                  /\ segs[2 * i].n = bit - (bit \div 2)
                  /\ <<segs[(2 * i) - 1].to, segs[2 * i].to>> =
                        IF psk_sig.bits[i] = 0 THEN <<low, high>> ELSE <<high, low>>
            /\ \A k \in 1..Len(segs) :
                  /\ segs[k].from = TargetBefore(segs, k)
                  /\ segs[k].rampN = psk_profile.front_samples
                  /\ segs[k].steadyN >= 1
                  /\ segs[k].rampN + segs[k].steadyN = segs[k].n

C21_Witness ==
    /\ psk_sig.status = "ok"
    /\ psk_profile.fs_tx = 48000
    /\ psk_profile.front_samples = 14
    /\ psk_sig.bits = <<1, 0, 1, 0, 0, 1, 0, 1>>
    /\ psk_sig.segments[1] = [n |-> 60, rampN |-> 14, steadyN |-> 46,
                              from |-> 0, to |-> DefaultPhaseHigh]
    /\ psk_sig.segments[3].from = DefaultPhaseLow
    /\ psk_sig.segments[3].to = DefaultPhaseLow

\* The number of 0 bits among the first k bits.
ZerosUpTo(bs, k) == Cardinality({i \in 1..k : bs[i] = 0})

\* C22: the NRZI levels are those of an encoder that starts from level -1,
\* toggles on every 0 bit and holds on every 1 bit: level k is +1 exactly when
\* the first k bits hold an odd number of 0s, so 0,1,1,1,1,1,1,0 encodes to
\* +1,+1,+1,+1,+1,+1,+1,-1.
C22_NrziFromMinusOne ==
    nrzi_symbols.status = "ok" =>
        /\ Len(nrzi_symbols.value) = Len(bits)
        /\ \A k \in 1..Len(bits) :
              nrzi_symbols.value[k] = IF ZerosUpTo(bits, k) % 2 = 1 THEN 1 ELSE -1
        /\ bits = <<0, 1, 1, 1, 1, 1, 1, 0>> =>
              nrzi_symbols.value = <<1, 1, 1, 1, 1, 1, 1, -1>>

\* C23: any two synthesis calls of the same encoder with equal configurations,
\* the seed included, return the same noise samples, whatever calls were made
\* before them: each call draws from a generator made from its seed.
C23_Reproducible ==
    \A a, b \in 1..Len(synth_calls) :
        synth_calls[a].cfg = synth_calls[b].cfg =>
            /\ synth_calls[a].pre = synth_calls[b].pre
            /\ synth_calls[a].post = synth_calls[b].post

C23_Witness ==
    /\ Len(synth_calls) = 2
    /\ synth_calls[1].cfg = synth_calls[2].cfg
    /\ synth_calls[1].cfg.encoder = "generate_dsc_hf"
    /\ Len(synth_calls[2].pre) = 2
    /\ Len(synth_calls[2].post) = 1
    /\ synth_calls[2].pre[1] # synth_calls[2].pre[2]
    /\ last_rng # default_rng(synth_calls[2].cfg.rng_seed)

\* the integer nearest to num / den, den > 0 (no ratio met here is a half)
NearestInt(num, den) ==
    IF num >= 0 THEN Round(num, den) ELSE -Round(-num, den)

\* C24: for a buffer with non-zero peak, every int8 value save_sc8 writes is
\* the component times 0.8/peak times 127, rounded to the nearest integer and
\* clamped to -128..127, so that a component of peak magnitude is written as
\* 102 (80% of 127, rounded).
C24_RoundedSc8 ==
    (sc8_file.status = "ok" /\ Len(sc8_iq) > 0 /\ MaxMag(sc8_iq) > 0) =>
        LET peak == MaxMag(sc8_iq)
        IN  /\ Len(sc8_file.value) = 2 * Len(sc8_iq)
            /\ \A k \in 1..Len(sc8_iq) : \A c \in 1..2 :
                  sc8_file.value[(2 * (k - 1)) + c] =
                      Max(-128, Min(127, NearestInt(sc8_iq[k][c] * 8 * 127,
                                                    10 * peak)))

\* C27: for every sps >= 1 and span >= 1 the kernel has an odd number of
\* taps, its middle tap is at time 0, and with every tap time t the time -t
\* is a tap time too.
C27_OddSymmetricKernel ==
    gauss_taps.status = "ok" =>
        LET h == gauss_taps.value
        IN  /\ Len(h) % 2 = 1
            /\ h[(Len(h) + 1) \div 2] = 0
            /\ \A j \in 1..Len(h) : \E k \in 1..Len(h) : h[k] = -h[j]

\* the positions at which the eight bits of pattern start in bs
Occurrences(pattern, bs) ==
    {i \in 1..(Len(bs) - Len(pattern) + 1) :
        SubSeq(bs, i, i + Len(pattern) - 1) = pattern}

\* C28: the output of _bit_stuff_ais never holds six consecutive 1s, and in
\* an AIS frame the pattern 01111110 starts at the start flag and at the stop
\* flag and nowhere else.
C28_FlagOnlyAsDelimiter ==
    /\ bits_stuffed.status = "ok" =>
          Occurrences(<<1, 1, 1, 1, 1, 1>>, bits_stuffed.value) = {}
    /\ ais.status = "ok" =>
          /\ Occurrences(<<1, 1, 1, 1, 1, 1>>, ais.bits_stuffed) = {}
          /\ Occurrences(<<0, 1, 1, 1, 1, 1, 1, 0>>, ais.frame_bits)
                = {25, 33 + Len(ais.bits_stuffed)}

C28_Witness ==
    /\ ais.status = "ok"
    /\ Occurrences(<<1, 1, 1, 1, 1, 1>>, ais.bits_payload_fcs) # {}
    /\ Len(ais.bits_stuffed) > Len(ais.bits_payload_fcs)
    /\ Len(ais.frame_bits) = 64 + Len(ais.bits_stuffed)

\* C25: for every call configuration, dsc_vhf's own build_primary_symbols_from_cfg
\* and build_dsc_bits return what dsc_common's return (the same symbol list,
\* the same bitstream or the same error), and so do the helpers under them:
\* the ten-bit characters of every symbol and the symbols of both MMSIs.
C25_VhfFramingIsCommonFraming ==
    /\ (primary_symbols.status = "ok" /\ vhf_primary_symbols.status = "ok") =>
          vhf_primary_symbols.value = primary_symbols.value
    /\ (dsc_bits.status # "none" /\ vhf_dsc_bits.status # "none") =>
          vhf_dsc_bits = dsc_bits
    /\ vhf_primary_symbols.status = "ok" =>
          /\ vhf_mmsi_to_symbols(Get(dsc_cfg.mmsi, DefaultMmsi))
                = _mmsi_to_symbols(Get(dsc_cfg.mmsi, DefaultMmsi))
          /\ vhf_mmsi_to_symbols(Get(dsc_cfg.mmsi_from, DefaultMmsiFrom))
                = _mmsi_to_symbols(Get(dsc_cfg.mmsi_from, DefaultMmsiFrom))
          /\ \A s \in 0..127 :
                vhf_symbols_to_tenbits(<<s>>) = _symbols_to_tenbits(<<s>>)
          /\ vhf_build_dsc_frame(Tail(vhf_primary_symbols.value),
                                 Head(vhf_primary_symbols.value),
                                 dsc_cfg.eos_symbol, TRUE)
                = _build_dsc_frame(Tail(vhf_primary_symbols.value),
                                   Head(vhf_primary_symbols.value),
                                   dsc_cfg.eos_symbol, TRUE)

C25_Witness ==
    /\ dsc_cfg.primary_symbols = <<>>
    /\ dsc_cfg.mmsi # <<>>
    /\ primary_symbols.status = "ok"
    /\ dsc_bits.status = "ok"
    /\ vhf_dsc_bits.status = "ok"
    /\ Len(vhf_primary_symbols.value) >= 12
    /\ Len(vhf_dsc_bits.value) = 10 * (138 + Len(vhf_primary_symbols.value))

\* C26: for every MMSI string _mmsi_to_symbols returns exactly 5 symbols, each
\* in 0..99: the two-digit groups of the string's decimal digits, padded with
\* zeros on the left, every other character ignored, the last 5 groups kept
\* when there are more than ten digits.
C26_FiveSymbols ==
    mmsi_out.status # "none" =>
        /\ mmsi_out.status = "ok"
        /\ Len(mmsi_out.value) = 5
        /\ \A i \in 1..5 : mmsi_out.value[i] \in 0..99
        /\ mmsi_out.value = MmsiGroups(mmsi_text)

\* C29: over any sequence of run_loop and stop calls on one instance, at
\* most one transfer process it spawned is alive at any time: a run_loop that
\* finds a process running raises and spawns nothing, and after stop() a new
\* process is spawned only once the previous one has ended.
C29_OneTransferAlive == Cardinality(transfers.alive) <= 1

\* C30: on the transmit path of the 121.5 MHz page in loop mode, the file
\* handed to hackrf_transfer holds the frame's samples followed by
\* round(gap_s * fs) zero samples, two bytes a sample: the gap is there once.
C30_GapOnce ==
    (tx_call.status = "ok" /\ p121_prof.mode = "loop") =>
        LET fs      == p121_prof.fs_tx
            frame_N == NumSamples(fs, 1000)
            gap_N   == SamplesOf(p121_prof.gap_s * 1000, fs)
        IN  /\ tx_call.loop_flag
            /\ tx_call.final_bytes = 2 * (frame_N + gap_N)

====
